---- MODULE Spec2Model ----
(***************************************************************************)
(* Model of the ai-agent application core:                                 *)
(*   - ApiKeyService (credential store),                                   *)
(*   - the request lifecycle managers (GoogleGenAiService,                 *)
(*     TextToSpeechService, ImageGenAiService, VideoUnderstandingService,  *)
(*     ImageEditingService, PdfProcessingService), which share one shape   *)
(*     and differ in a few places selected by the variable `feature`,      *)
(*   - DatabaseService / ConversationService (conversation store).         *)
(* Asynchronous methods are cut at their await points: one action is the   *)
(* synchronous code between two awaits.                                    *)
(***************************************************************************)
EXTENDS Integers, Sequences, FiniteSets, TLC

(***************************************************************************)
(* Bounds                                                                  *)
(***************************************************************************)
MaxCalls == 3
\* concurrent operations of the conversation store, conversation ids that can
\* be generated, message ids that can be assigned, messages of the legacy
\* conversation
MaxTasks == 2
MaxConvs == 2
MaxMsgs == 2
LegacyMsgs == 1
\* store operations that are started
MaxOps == 3
\* calls of uploadPdf, markers in one failure message
MaxUploads == 2
MaxMarkers == 2
\* the valid message timestamps are 1..MaxTime
MaxTime == 2
MaxLegacy == 2
MaxPad == 1
\* generateTitle: the length of the prefix kept
TitleLength == 50

(***************************************************************************)
(* Input domains                                                           *)
(***************************************************************************)
NoKey == "null"
EmptyKey == ""
Keys == {"k1"}
KeyInputs == Keys
\* setApiKey can also be handed the empty string
AnyKeyInputs == Keys \cup {EmptyKey}
Features == {"text", "speech", "image", "video", "edit", "pdf"}
ImageCounts == {1, 2}

\* A failure message is modelled by the set of classification markers
\* (substrings the catch blocks test with includes()) that it contains.
NoMarkers == {}
\* an error without a message (message empty or undefined): no includes() test
\* holds of it, and `else if (error.message)` fails
EmptyMessage == {"(no message)"}
CancelledMsg == {"cancelled"}
\* 'AI responded with text instead of an edited image ... may have declined
\* to edit the image.'
TextInsteadMsg == {"text instead", "declined"}
\* the message of the TypeError of reading a property of this.ai when
\* resetService() has made it undefined: it holds no marker
TypeErrorMsg == NoMarkers
ErrMsgs == { {"PERMISSION_DENIED"}, {"rate limit"} }
\* how a provider call settles: it resolves with the data asked for (ok), with
\* no part that can be used (empty), with text parts and no image or audio
\* (textonly), or it rejects with a message (error)
ProviderOutcomes ==
    {[kind |-> "ok", msg |-> NoMarkers], [kind |-> "empty", msg |-> NoMarkers],
     [kind |-> "textonly", msg |-> NoMarkers]}
        \cup {[kind |-> "error", msg |-> m] : m \in ErrMsgs}

\* the substrings the catch blocks look for in a failure message; AbortError
\* stands for an error whose name is AbortError
Markers ==
    {"API key", "PERMISSION_DENIED", "rate limit", "quota", "network", "fetch",
     "invalid", "bad request", "YouTube URL", "text instead", "declined",
     "processing failed", "FAILED", "cancelled", "AbortError",
     "QUOTA_EXCEEDED", "MODEL_NOT_FOUND"}
FailureMessages ==
    {m \in SUBSET Markers : Cardinality(m) <= MaxMarkers} \cup {EmptyMessage}

NoError == [type |-> "none", text |-> "none"]
NoCall == 0

VARIABLES
    \* ApiKeyService
    apiKey, isValidated, hasApiKey, storedKey,
    \* manager
    feature, ai, isInitialized, isGenerating, lastError,
    currentAbortController, history, effectDirty,
    \* the invocations of the manager's invoke method
    calls, nCalls,
    \* observation variable, the kind of the last operation: other, stop (a
    \* cancelCurrentRequest that aborted the latest call in flight), invoke,
    \* invokeNotReady, invokeBadRequest, rejected (a call failed with a
    \* credential rejection)
    lastOp,
    \* DatabaseService: the conversations table in getAllConversations order
    \* (most recently updated first), the messages table, the id generators
    dbConversations, dbMessages, nextUuid, nextMsgId,
    \* ConversationService signals
    conversations, activeConversationUuid,
    \* the legacy localStorage keys
    localStorage,
    \* the asynchronous store operations in progress, and how many were started
    tasks, nOps,
    \* PdfProcessingService.uploadPdf: the uploading flag, each uploadPdf call's
    \* position, the length of processedPdfs
    isUploading, uploads, processedPdfs,
    \* the message the provider fails with
    failure,
    \* the text returned by the last exportConversation
    blob,
    \* observation variable: what the last importConversations returned, how
    \* many rows its transaction had written when it ended, how many records
    \* of its input failed the shape check
    importResult,
    \* observation variable: the last DatabaseService method a caller invoked
    \* directly and awaited, with its conversation id
    dbOp

keyVars == <<apiKey, isValidated, hasApiKey, storedKey>>
mgrVars == <<feature, ai, isInitialized, isGenerating, lastError,
             currentAbortController, history, effectDirty>>
callVars == <<calls, nCalls>>
dbVars == <<dbConversations, dbMessages, nextUuid, nextMsgId>>
serviceVars == <<conversations, activeConversationUuid, localStorage, tasks>>
storeVars == <<dbVars, serviceVars, nOps, dbOp>>
uploadVars == <<isUploading, uploads, processedPdfs>>
portVars == <<blob, importResult>>
restVars == <<storeVars, uploadVars, failure, portVars>>
\* what the constructor effect of no manager writes
effectFrame == <<storeVars, uploads, processedPdfs, failure, portVars>>
vars == <<keyVars, mgrVars, callVars, lastOp, restVars>>

CallIds == 1..MaxCalls
UploadIds == 1..MaxUploads
IdleUpload == [pc |-> "idle", state |-> "none", complete |-> TRUE]
DoneUpload == [pc |-> "done", state |-> "none", complete |-> TRUE]
\* pc: idle, prep (awaiting the file encoding), await (awaiting the provider), done
\* aborted: the call's AbortSignal; left: provider calls still to make
\* stopReq: cancelCurrentRequest() was called while this was the latest call in
\*          flight (kept while the call is in flight)
\* afterStop: the call was invoked right after a stop that aborted its predecessor
\* result: none, success (the try block ran to its end), failed (it threw)
IdleCall == [pc |-> "idle", aborted |-> FALSE, left |-> 0, stopReq |-> FALSE,
             afterStop |-> FALSE, result |-> "none"]
InvokeOps == {"invoke", "invokeNotReady", "invokeBadRequest"}

(***************************************************************************)
(* ApiKeyService                                                           *)
(***************************************************************************)
Truthy(k) == k # NoKey /\ k # EmptyKey

\* setApiKey(apiKey, isValidated)
SetApiKey(k, v) ==
    /\ apiKey' = k
    /\ isValidated' = v
    /\ hasApiKey' = Truthy(k)
    /\ storedKey' = IF v /\ Truthy(k) THEN k ELSE storedKey
    /\ effectDirty' = (effectDirty \/ apiKey # k)
    /\ lastOp' = "other"
    /\ UNCHANGED <<feature, ai, isInitialized, isGenerating, lastError,
                   currentAbortController, history, callVars>>

\* (variant: the flag is left as it is)
ClearedHasApiKey_Stale == hasApiKey

\* what clearApiKey() leaves in hasApiKey
ClearedHasApiKey == FALSE

\* clearApiKey()
ClearApiKey ==
    /\ apiKey' = NoKey
    /\ isValidated' = FALSE
    /\ hasApiKey' = ClearedHasApiKey
    /\ storedKey' = NoKey
    /\ effectDirty' = (effectDirty \/ apiKey # NoKey)
    /\ lastOp' = "other"
    /\ UNCHANGED <<feature, ai, isInitialized, isGenerating, lastError,
                   currentAbortController, history, callVars>>

\* (variant: the flag is set without looking at the token)
MarkAsValidated_Always == TRUE

\* markAsValidated(): the new value of the validated flag
MarkAsValidated == IF Truthy(apiKey) THEN TRUE ELSE isValidated

\* (variant: the flag is left as it is)
MarkAsInvalid_Keep == isValidated

\* markAsInvalid(): the new value of the validated flag
MarkAsInvalid == FALSE

(***************************************************************************)
(* Manager: readiness                                                      *)
(***************************************************************************)
\* (variant: the credential store is not consulted)
IsReady_HandleOnly == isInitialized /\ ai # NoKey

\* isReady()
IsReady == isInitialized /\ ai # NoKey /\ hasApiKey

\* constructor effect: initializeAI(apiKey) or resetService()
RunEffect ==
    /\ effectDirty
    /\ effectDirty' = FALSE
    /\ IF Truthy(apiKey)
       THEN /\ ai' = apiKey
            /\ isInitialized' = TRUE
            /\ lastError' = NoError
            /\ UNCHANGED <<isGenerating, currentAbortController, calls, isUploading>>
       ELSE /\ ai' = NoKey
            /\ isInitialized' = FALSE
            /\ isGenerating' = FALSE
            \* PdfProcessingService.resetService also ends the uploading flag
            /\ isUploading' = IF feature = "pdf" THEN FALSE ELSE isUploading
            /\ calls' = IF currentAbortController # NoCall
                        THEN [calls EXCEPT ![currentAbortController].aborted = TRUE]
                        ELSE calls
            /\ currentAbortController' = NoCall
            /\ lastError' = [type |-> "API_KEY_MISSING", text |-> "key required"]
    /\ lastOp' = "other"
    /\ UNCHANGED <<keyVars, feature, history, nCalls>>

(***************************************************************************)
(* Manager: cancellation                                                   *)
(***************************************************************************)
\* the call that cancelCurrentRequest() aborts, NoCall if it does nothing
CancelTarget ==
    IF currentAbortController # NoCall /\ ~calls[currentAbortController].aborted
    THEN currentAbortController
    ELSE NoCall

\* the most recently invoked call if it is still awaiting, else NoCall
LatestInFlight ==
    IF nCalls > 0 /\ calls[nCalls].pc \in {"prep", "await"} THEN nCalls ELSE NoCall

\* (variant: without a call to cancel the flag is inverted)
CancelledGenerating_Inverted ==
    IF CancelTarget # NoCall THEN FALSE ELSE ~isGenerating

\* the generating flag after cancelCurrentRequest()
CancelledGenerating ==
    IF CancelTarget # NoCall THEN FALSE ELSE isGenerating

\* the calls after cancelCurrentRequest(): the signal of the target is aborted
CancelledCalls ==
    [c \in CallIds |->
        [calls[c] EXCEPT !.aborted = (@ \/ c = CancelTarget),
                         !.stopReq = (@ \/ c = LatestInFlight)]]

\* cancelCurrentRequest()
CancelCurrentRequest ==
    /\ isGenerating' = CancelledGenerating
    /\ calls' = CancelledCalls
    /\ lastOp' = IF CancelTarget # NoCall /\ CancelTarget = LatestInFlight
                  THEN "stop" ELSE "other"
    /\ UNCHANGED <<keyVars, feature, ai, isInitialized, lastError,
                   currentAbortController, history, effectDirty, nCalls>>

(***************************************************************************)
(* Manager: failure classification                                         *)
(***************************************************************************)
\* message.includes(marker)
Includes(msg, marker) == marker \in msg

\* the feature-specific branch of the catch block, between INVALID_REQUEST
\* and the fallback
FeatureErrorType(f, msg) ==
    IF f = "video" /\ Includes(msg, "YouTube URL") THEN "INVALID_REQUEST"
    ELSE IF f = "edit" /\ (Includes(msg, "text instead") \/ Includes(msg, "declined"))
    THEN "IMAGE_PROCESSING_FAILED"
    ELSE "UNKNOWN_ERROR"

\* the if / else-if chain of the catch block of invoke
Classify(f, msg) ==
    IF Includes(msg, "API key") \/ Includes(msg, "PERMISSION_DENIED") THEN "API_KEY_MISSING"
    ELSE IF Includes(msg, "rate limit") \/ Includes(msg, "quota") THEN "RATE_LIMIT"
    ELSE IF Includes(msg, "network") \/ Includes(msg, "fetch") THEN "NETWORK_ERROR"
    ELSE IF Includes(msg, "invalid") \/ Includes(msg, "bad request") THEN "INVALID_REQUEST"
    ELSE FeatureErrorType(f, msg)

\* the first test of the catch block: the failure is a cancellation
IsCancellation(msg) == Includes(msg, "AbortError") \/ Includes(msg, "cancelled")

\* the errorMessage the catch block of invoke ends with: the fixed text of the
\* branch taken in the first four branches, error.message in the feature's
\* own branch and in `else if (error.message)`, the default text otherwise
ErrorText(f, msg) ==
    IF Includes(msg, "API key") \/ Includes(msg, "PERMISSION_DENIED") THEN "invalid key"
    ELSE IF Includes(msg, "rate limit") \/ Includes(msg, "quota") THEN "rate limit exceeded"
    ELSE IF Includes(msg, "network") \/ Includes(msg, "fetch") THEN "network error"
    ELSE IF Includes(msg, "invalid") \/ Includes(msg, "bad request") THEN "invalid request"
    ELSE IF msg = EmptyMessage THEN "default text"
    ELSE "provider message"

\* ImageGenAiService.simulateImageGeneration, inner catch: the message rethrown
\* (in a new Error, whose name is Error)
RewriteImageError(msg) ==
    IF Includes(msg, "PERMISSION_DENIED") THEN {"API key"}
    ELSE IF Includes(msg, "QUOTA_EXCEEDED") THEN {"quota"}
    ELSE IF Includes(msg, "MODEL_NOT_FOUND") THEN {"API key"}
    ELSE IF msg = EmptyMessage THEN NoMarkers
    ELSE msg \ {"AbortError"}

(***************************************************************************)
(* Manager: invoke                                                         *)
(***************************************************************************)
KeepsHistory(f) == f # "text"
ValidatesOnSuccess(f) == f # "pdf"
HasRequestGuard(f) == f \in {"video", "pdf"}
HasPreprocessing(f) == f = "edit"

\* (variant: the signal is not checked)
AbortedAfterAwait_Never(c) == FALSE

\* the check `if (abortSignal.aborted)` made after an await
AbortedAfterAwait(c) == calls[c].aborted

\* what the finally block of call c leaves in currentAbortController
FinallyController(c) == NoCall

\* (variant: the finally block leaves the flag as it is)
FinallyGenerating_Kept(c) == isGenerating

\* what the finally block of call c leaves in the generating flag
FinallyGenerating(c) == FALSE

\* generateContent / generateSpeech / generateImage / analyzeVideo / editImage /
\* analyzeDocuments, up to the first await
Invoke(n, valid) ==
    /\ nCalls < MaxCalls
    /\ IF ~IsReady
       THEN /\ lastOp' = "invokeNotReady"
            /\ UNCHANGED <<keyVars, mgrVars, callVars>>
       ELSE IF HasRequestGuard(feature) /\ ~valid
       THEN /\ lastOp' = "invokeBadRequest"
            /\ UNCHANGED <<keyVars, mgrVars, callVars>>
       ELSE LET c == nCalls + 1
                cancelled == [d \in CallIds |->
                                [calls[d] EXCEPT !.aborted = (@ \/ d = CancelTarget)]]
            IN  /\ nCalls' = c
                /\ currentAbortController' = c
                /\ calls' = [cancelled EXCEPT ![c] =
                        [pc |-> IF HasPreprocessing(feature) THEN "prep" ELSE "await",
                         aborted |-> FALSE,
                         left |-> IF feature = "image" THEN n ELSE 1,
                         stopReq |-> FALSE,
                         afterStop |-> (lastOp = "stop"),
                         result |-> "none"]]
                /\ isGenerating' = TRUE
                /\ lastError' = NoError
                /\ lastOp' = "invoke"
                /\ UNCHANGED <<keyVars, feature, ai, isInitialized, history, effectDirty>>

\* the response holds what the feature reads from it: text for the text,
\* video and PDF managers, audio or an image for the others
HasExpectedData(f, o) ==
    \/ o.kind = "ok"
    \/ o.kind = "textonly" /\ f \in {"text", "video", "pdf"}

\* The message thrown into the catch block of invoke when the provider call of
\* call c settles with outcome o, or "returned" when the try block goes on.
\* For image generation this is simulateImageGeneration's loop body.
\* When another image is still to be made the loop goes round: the next
\* generateContent is called on this.ai, a TypeError when resetService() has
\* cleared it, which the catch block of the loop rethrows.
ProviderStage(c, o) ==
    IF feature = "image"
    THEN IF o.kind = "error"
         THEN IF Includes(o.msg, "cancelled") \/ AbortedAfterAwait(c)
              THEN [thrown |-> TRUE, msg |-> CancelledMsg]
              ELSE [thrown |-> TRUE, msg |-> RewriteImageError(o.msg)]
         ELSE IF AbortedAfterAwait(c) THEN [thrown |-> TRUE, msg |-> CancelledMsg]
         ELSE IF ~HasExpectedData(feature, o) THEN [thrown |-> TRUE, msg |-> NoMarkers]
         ELSE IF calls[c].left > 1 /\ ai = NoKey
         THEN [thrown |-> TRUE, msg |-> RewriteImageError(TypeErrorMsg)]
         ELSE [thrown |-> FALSE, msg |-> NoMarkers]
    ELSE IF o.kind = "error" THEN [thrown |-> TRUE, msg |-> o.msg]
    ELSE [thrown |-> FALSE, msg |-> NoMarkers]

\* The checks of the try block after the provider's response has come back:
\* the signal first, then the parts of the response
ResponseStage(c, o) ==
    IF AbortedAfterAwait(c) THEN [thrown |-> TRUE, msg |-> CancelledMsg]
    ELSE IF HasExpectedData(feature, o) THEN [thrown |-> FALSE, msg |-> NoMarkers]
    ELSE IF feature = "edit" /\ o.kind = "textonly"
    THEN [thrown |-> TRUE, msg |-> TextInsteadMsg]
    ELSE [thrown |-> TRUE, msg |-> NoMarkers]

\* the call record of call c once its invoke has finished; nothing refers to
\* the call's AbortController any more
Finished(c, res) ==
    [calls EXCEPT ![c].pc = "done", ![c].aborted = FALSE, ![c].left = 0,
                  ![c].stopReq = FALSE, ![c].result = res]

\* catch + finally of call c for a thrown message
Fail(c, o, msg) ==
    /\ IF IsCancellation(msg)
       THEN UNCHANGED <<lastError, isValidated>>
       ELSE /\ lastError' = [type |-> Classify(feature, msg),
                             text |-> ErrorText(feature, msg)]
            /\ isValidated' = IF Classify(feature, msg) = "API_KEY_MISSING"
                              THEN MarkAsInvalid ELSE isValidated
    /\ lastOp' = IF ~IsCancellation(msg) /\ Classify(feature, msg) = "API_KEY_MISSING"
                  THEN "rejected" ELSE "other"
    /\ calls' = Finished(c, "failed")
    /\ isGenerating' = FinallyGenerating(c)
    /\ currentAbortController' = FinallyController(c)
    /\ UNCHANGED history

\* success path + finally of call c
Succeed(c, o) ==
    /\ isValidated' = IF ValidatesOnSuccess(feature) THEN MarkAsValidated ELSE isValidated
    /\ history' = IF KeepsHistory(feature) THEN <<c>> \o history ELSE history
    /\ calls' = Finished(c, "success")
    /\ isGenerating' = FinallyGenerating(c)
    /\ currentAbortController' = FinallyController(c)
    /\ lastOp' = "other"
    /\ UNCHANGED lastError

\* ImageEditingService.editImage: fileToBase64 settles (ok = the file was read)
PreprocessSettles(c, ok) ==
    /\ calls[c].pc = "prep"
    /\ IF ~ok THEN Fail(c, [kind |-> "error", msg |-> NoMarkers], NoMarkers)
       ELSE IF AbortedAfterAwait(c)
       THEN Fail(c, [kind |-> "error", msg |-> CancelledMsg], CancelledMsg)
       \* this.ai.models.generateContent: this.ai is read again
       ELSE IF ai = NoKey
       THEN Fail(c, [kind |-> "error", msg |-> TypeErrorMsg], TypeErrorMsg)
       ELSE /\ calls' = [calls EXCEPT ![c].pc = "await"]
            /\ lastOp' = "other"
            /\ UNCHANGED <<isValidated, lastError, isGenerating, currentAbortController,
                           history>>
    /\ UNCHANGED <<apiKey, hasApiKey, storedKey, feature, ai, isInitialized,
                   effectDirty, nCalls>>

\* the provider call of call c settles with outcome o; the rest of invoke runs
ProviderSettles(c, o) ==
    /\ calls[c].pc = "await"
    /\ LET ps == ProviderStage(c, o)
           rs == ResponseStage(c, o)
       IN  IF ps.thrown THEN Fail(c, o, ps.msg)
           ELSE IF feature = "image" /\ calls[c].left > 1
           THEN /\ calls' = [calls EXCEPT ![c].left = @ - 1]
                /\ lastOp' = "other"
                /\ UNCHANGED <<isValidated, lastError, isGenerating,
                               currentAbortController, history>>
           ELSE IF rs.thrown THEN Fail(c, o, rs.msg)
           ELSE Succeed(c, o)
    /\ UNCHANGED <<apiKey, hasApiKey, storedKey, feature, ai, isInitialized,
                   effectDirty, nCalls>>

\* clearError()
ClearError ==
    /\ lastError' = NoError
    /\ lastOp' = "other"
    /\ UNCHANGED <<keyVars, feature, ai, isInitialized, isGenerating,
                   currentAbortController, history, effectDirty, callVars>>

(***************************************************************************)
(* Specification of one manager with its credential store                  *)
(***************************************************************************)
\* the request inputs that matter to the feature: the image count (image
\* generation), and whether the request passes the guard (video URL, PDF list)
CountInputs == IF feature = "image" THEN ImageCounts ELSE {1}
ValidInputs == IF HasRequestGuard(feature) THEN BOOLEAN ELSE {TRUE}

\* nothing exported, nothing imported yet
NoBlob == [exists |-> FALSE, uuid |-> 0, source |-> <<>>,
           text |-> [json |-> FALSE, records |-> <<>>]]
NoImport == [returned |-> FALSE, written |-> 0, skipped |-> 0]
PortIdle ==
    /\ blob = NoBlob
    /\ importResult = NoImport

ManagerInit ==
    /\ apiKey \in {NoKey} \cup Keys
    /\ storedKey = apiKey
    /\ hasApiKey = Truthy(apiKey)
    /\ isValidated = FALSE
    /\ feature \in Features
    /\ ai = NoKey
    /\ isInitialized = FALSE
    /\ isGenerating = FALSE
    /\ lastError = NoError
    /\ currentAbortController = NoCall
    /\ history = <<>>
    /\ effectDirty = TRUE
    /\ calls = [c \in CallIds |-> IdleCall]
    /\ nCalls = 0
    /\ lastOp = "other"
    /\ isUploading = FALSE
    /\ uploads = [i \in UploadIds |-> IdleUpload]
    /\ processedPdfs = 0

(***************************************************************************)
(* Conversation store: DatabaseService (Dexie tables) and                  *)
(* ConversationService.  A table operation outside db.transaction is its   *)
(* own transaction; transactions take effect in the order they are issued. *)
(* The effect of an operation and the value it will deliver are fixed in   *)
(* the step that issues it; the code after the await runs in a later step. *)
(***************************************************************************)
TaskIds == 1..MaxTasks
Roles == {"user", "assistant"}
NoUuid == 0
NoDbOp == [name |-> "none", uuid |-> NoUuid]
\* titles: 'Conversation n', a title passed in by the caller or carried by
\* imported / legacy data, the title derived from a first user message
DefaultTitle(n) == <<"Conversation", n>>
GivenTitle == <<"given", 0>>
GenerateTitle == <<"derived", 0>>

\* the legacy data: absent, or one valid conversation with LegacyMsgs
\* messages, which the legacy active-conversation key names or not
LegacyStates == [saved : BOOLEAN, active : BOOLEAN]
NoLegacy == [saved |-> FALSE, active |-> FALSE]

\* import inputs: text that is not JSON, or a list of records, each passing
\* the shape check or not and carrying some messages
ImportInputs ==
    { [json |-> FALSE, records |-> <<>>],
      [json |-> TRUE, records |-> <<[valid |-> TRUE, msgs |-> 1]>>],
      [json |-> TRUE, records |-> <<[valid |-> FALSE, msgs |-> 1]>>] }

\* op: the operation; pc: the await it is suspended at; uuid, role, n, flag:
\* its local variables; list: conversation rows still to be read by
\* getAllConversationsWithMessages / getConversationWithMessages, each with
\* the messages the conversation had when its row was read (snap, used only
\* by the properties); result: the rows assembled so far
IdleTask == [op |-> "none", pc |-> "idle", uuid |-> NoUuid, role |-> "user",
             n |-> 0, flag |-> FALSE, list |-> <<>>, result |-> <<>>]

\* ---- DatabaseService ----------------------------------------------------
ConvIdsOf(cs) == {cs[i].uuid : i \in 1..Len(cs)}
ConvIds == ConvIdsOf(dbConversations)
MessageIdsOf(ms, u) == {m.id : m \in {x \in ms : x.conversationId = u}}

\* The conversations table is kept in the order of getAllConversations():
\* orderBy('updatedAt').reverse(), by updatedAt descending and, among rows of
\* one updatedAt, by primary key descending. A row holds its uuid, its title,
\* id (the place of its primary key ++id among the keys of the table) and
\* fresh (its updatedAt is the latest millisecond a hook has stamped, which
\* the clock may still show). The fresh rows are the first of the table.
Row(u, title, id) == [uuid |-> u, title |-> title, id |-> id, fresh |-> TRUE]
\* new Date() in a hook: the clock shows a later millisecond than the last
\* stamp (tick), or the same one
Aged(cs, tick) ==
    IF tick THEN [i \in 1..Len(cs) |-> [cs[i] EXCEPT !.fresh = FALSE]] ELSE cs
\* the inputs of the clock for n stamps in a row of which only the last
\* advance of the clock shows: before the k-th, or never
LastTick(n) == {[i \in 1..n |-> i = k] : k \in 0..n}
NoTick(n) == [i \in 1..n |-> FALSE]
\* the row of the least key stands after every row of its millisecond and
\* before no row stamped later: whether it is fresh decides no order
Settled(cs) ==
    [i \in 1..Len(cs) |-> IF cs[i].id = 1 THEN [cs[i] EXCEPT !.fresh = FALSE] ELSE cs[i]]
\* the keys of the remaining rows keep their order
Ranked(cs) ==
    Settled([i \in 1..Len(cs) |->
        [cs[i] EXCEPT !.id = Cardinality({j \in 1..Len(cs) : cs[j].id <= cs[i].id})]])
\* rows of one updatedAt, as the reversed index gives them
RECURSIVE ByKeyDescending(_)
ByKeyDescending(rows) ==
    IF rows = {} THEN <<>>
    ELSE LET r == CHOOSE x \in rows : \A y \in rows : y.id <= x.id
         IN  <<r>> \o ByKeyDescending(rows \ {r})
\* conversations.add: the creating hook stamps updatedAt; the new row has
\* the greatest key and the latest updatedAt
ConversationsAdd(cs, u, title, tick) ==
    Settled(<<Row(u, title, Len(cs) + 1)>> \o Aged(cs, tick))
ConversationsWithout(cs, u) == Ranked(SelectSeq(cs, LAMBDA c : c.uuid # u))
\* conversations.where('uuid').equals(u).modify({updatedAt}): the rows hit
\* are stamped and stand with the rows of the same millisecond; nothing
\* happens when no row has that uuid
Touch(cs, u, tick) ==
    LET hit == {[cs[i] EXCEPT !.fresh = TRUE] : i \in {j \in 1..Len(cs) : cs[j].uuid = u}}
        rest == Aged(SelectSeq(cs, LAMBDA c : c.uuid # u), tick)
        tied == {rest[i] : i \in {j \in 1..Len(rest) : rest[j].fresh}}
    IN  IF hit = {} THEN cs
        ELSE Settled(ByKeyDescending(hit \cup tied)
                        \o SelectSeq(rest, LAMBDA c : ~c.fresh))
\* modify({title, updatedAt})
Retitle(cs, u, title, tick) ==
    Touch([i \in 1..Len(cs) |->
              IF cs[i].uuid = u THEN [cs[i] EXCEPT !.title = title] ELSE cs[i]],
          u, tick)
\* the title of the stored conversation u in the table cs
TitleIn(cs, u) == cs[CHOOSE i \in 1..Len(cs) : cs[i].uuid = u].title
\* messages.add
MessagesAdd(ms, id, u) ==
    ms \cup {[id |-> id, conversationId |-> u]}

\* getConversation(uuid)
GetConversation(u) == u \in ConvIds
\* getAllConversations(): orderBy('updatedAt').reverse(); of a row only
\* the uuid is kept, the title read with it is not used by any operation
GetAllConversations ==
    [i \in 1..Len(dbConversations) |->
        [uuid |-> dbConversations[i].uuid,
         snap |-> MessageIdsOf(dbMessages, dbConversations[i].uuid)]]
\* messages.where('conversationId').equals(uuid).sortBy('timestamp')
GetMessagesForConversation(u) == MessageIdsOf(dbMessages, u)

\* deleteConversation(uuid): one rw transaction over both tables
DeleteMessages_Kept(ms, u) == ms
DeleteMessages(ms, u) == {m \in ms : m.conversationId # u}
DeleteConversationTx(u) ==
    /\ dbMessages' = DeleteMessages(dbMessages, u)
    /\ dbConversations' = ConversationsWithout(dbConversations, u)
\* deleteAllConversations(): one rw transaction
DeleteAllConversationsTx ==
    /\ dbMessages' = {}
    /\ dbConversations' = <<>>

\* importConversations: the transaction body, record by record
RECURSIVE ImportRecords(_, _, _)
ImportRecords(recs, db, ticks) ==
    IF recs = <<>> THEN db
    ELSE LET r == Head(recs)
             added == {[id |-> db.nextMsgId + i - 1,
                        conversationId |-> db.nextUuid] : i \in 1..r.msgs}
         IN  ImportRecords(Tail(recs),
                IF r.valid
                THEN [convs |-> ConversationsAdd(db.convs, db.nextUuid, GivenTitle,
                                                 Head(ticks)),
                      msgs |-> db.msgs \cup added,
                      nextUuid |-> db.nextUuid + 1,
                      nextMsgId |-> db.nextMsgId + r.msgs]
                ELSE db,
                Tail(ticks))
Imported(recs, ticks) ==
    ImportRecords(recs, [convs |-> dbConversations, msgs |-> dbMessages,
                         nextUuid |-> nextUuid, nextMsgId |-> nextMsgId], ticks)

\* ---- bookkeeping of the bound on message ids ------------------------------
\* messages a running operation is still going to add
Owed(t) ==
    IF tasks[t].op = "addCreate" THEN 1
    ELSE IF tasks[t].op = "migrate" THEN tasks[t].n
    ELSE 0
RECURSIVE SumOwed(_)
SumOwed(T) == IF T = {} THEN 0
              ELSE LET t == CHOOSE x \in T : TRUE IN Owed(t) + SumOwed(T \ {t})
RoomForMessages(k) == (nextMsgId - 1) + SumOwed(TaskIds) + k <= MaxMsgs
RoomForConversations(k) == (nextUuid - 1) + k <= MaxConvs

\* the slot a new operation is started in: the first free one
Free(t) ==
    /\ tasks[t].pc = "idle"
    /\ \A s \in 1..(t - 1) : tasks[s].pc # "idle"

\* ---- ConversationService --------------------------------------------------
\* loadConversationsFromDatabase() up to its await: getAllConversations() of
\* getAllConversationsWithMessages() is issued
LoadBegin(t) ==
    [tasks[t] EXCEPT !.pc = "listed", !.list = GetAllConversations,
                     !.result = <<>>]
\* the value of a finished getAllConversationsWithMessages()
WithMessages(result) ==
    [i \in 1..Len(result) |->
        [uuid |-> result[i].uuid, messages |-> result[i].messages]]

\* getAllConversationsWithMessages(): the loop body, one messages query per
\* conversation row read before
ReadMessages(t) ==
    /\ tasks[t].pc = "listed"
    /\ tasks[t].list # <<>>
    /\ LET row == Head(tasks[t].list)
       IN  tasks' = [tasks EXCEPT
              ![t].list = Tail(@),
              ![t].result = Append(@,
                  [uuid |-> row.uuid,
                   messages |-> GetMessagesForConversation(row.uuid),
                   snap |-> row.snap])]
    /\ UNCHANGED <<dbVars, conversations, activeConversationUuid, localStorage>>

\* loadConversationsFromDatabase() after its await, and the caller's code
\* that follows: only addMessage, back from its createConversation(), goes
\* on (it issues db.addMessage); every other caller returns
LoadFinish(t) ==
    /\ tasks[t].pc = "listed"
    /\ tasks[t].list = <<>>
    /\ conversations' = WithMessages(tasks[t].result)
    /\ activeConversationUuid' =
          IF activeConversationUuid = NoUuid /\ tasks[t].result # <<>>
          THEN tasks[t].result[1].uuid
          ELSE activeConversationUuid
    /\ IF tasks[t].op = "addCreate"
       THEN /\ dbMessages' = MessagesAdd(dbMessages, nextMsgId, tasks[t].uuid)
            /\ nextMsgId' = nextMsgId + 1
            /\ tasks' = [tasks EXCEPT ![t] =
                  [@ EXCEPT !.op = "add", !.pc = "msgAdded", !.result = <<>>]]
            /\ UNCHANGED <<dbConversations, nextUuid>>
       ELSE /\ tasks' = [tasks EXCEPT ![t] = IdleTask]
            /\ UNCHANGED dbVars
    /\ UNCHANGED localStorage

\* createConversation(title?): db.createConversation generates the uuid and,
\* without a title, first awaits conversations.count()
StartCreateConversation(t, titled) ==
    /\ Free(t)
    /\ RoomForConversations(1)
    /\ nextUuid' = nextUuid + 1
    /\ IF titled
       THEN /\ \E tick \in BOOLEAN :
                    dbConversations' = ConversationsAdd(dbConversations, nextUuid, GivenTitle, tick)
            /\ tasks' = [tasks EXCEPT ![t] =
                  [IdleTask EXCEPT !.op = "create", !.pc = "created",
                                   !.uuid = nextUuid]]
       ELSE /\ dbConversations' = dbConversations
            /\ tasks' = [tasks EXCEPT ![t] =
                  [IdleTask EXCEPT !.op = "create", !.pc = "counted",
                                   !.uuid = nextUuid,
                                   !.n = Len(dbConversations)]]
    /\ UNCHANGED <<dbMessages, nextMsgId, conversations,
                   activeConversationUuid, localStorage>>

\* db.createConversation after conversations.count(): conversations.add
CreateConversation_Counted(t) ==
    /\ tasks[t].pc = "counted"
    /\ \E tick \in BOOLEAN : dbConversations' = ConversationsAdd(dbConversations, tasks[t].uuid,
                                           DefaultTitle(tasks[t].n + 1), tick)
    /\ tasks' = [tasks EXCEPT ![t].pc = "created", ![t].n = 0]
    /\ UNCHANGED <<dbMessages, nextUuid, nextMsgId, conversations,
                   activeConversationUuid, localStorage>>

\* createConversation after db.createConversation
CreateConversation_Created(t) ==
    /\ tasks[t].pc = "created"
    /\ activeConversationUuid' = tasks[t].uuid
    /\ tasks' = [tasks EXCEPT ![t] = LoadBegin(t)]
    /\ UNCHANGED <<dbVars, conversations, localStorage>>

\* addMessage(content, role): with an active conversation db.addMessage is
\* issued at once, otherwise createConversation() is awaited first
StartAddMessage(t, role) ==
    /\ Free(t)
    /\ RoomForMessages(1)
    /\ IF activeConversationUuid = NoUuid
       THEN /\ RoomForConversations(1)
            /\ nextUuid' = nextUuid + 1
            /\ tasks' = [tasks EXCEPT ![t] =
                  [IdleTask EXCEPT !.op = "addCreate", !.pc = "counted",
                                   !.uuid = nextUuid, !.role = role,
                                   !.n = Len(dbConversations)]]
            /\ UNCHANGED <<dbMessages, nextMsgId>>
       ELSE /\ dbMessages' = MessagesAdd(dbMessages, nextMsgId,
                                         activeConversationUuid)
            /\ nextMsgId' = nextMsgId + 1
            /\ tasks' = [tasks EXCEPT ![t] =
                  [IdleTask EXCEPT !.op = "add", !.pc = "msgAdded",
                                   !.uuid = activeConversationUuid,
                                   !.role = role]]
            /\ UNCHANGED nextUuid
    /\ UNCHANGED <<dbConversations, conversations, activeConversationUuid,
                   localStorage>>

\* db.addMessage after messages.add: the conversation's updatedAt is bumped
DbAddMessage_Added(t) ==
    /\ tasks[t].pc = "msgAdded"
    /\ \E tick \in BOOLEAN : dbConversations' = Touch(dbConversations, tasks[t].uuid, tick)
    /\ tasks' = [tasks EXCEPT ![t].pc = "touched"]
    /\ UNCHANGED <<dbMessages, nextUuid, nextMsgId, conversations,
                   activeConversationUuid, localStorage>>

\* this.conversations().find(conv => conv.uuid === conversationUuid) has no
\* messages
FirstMessageOf(u) ==
    /\ \E i \in 1..Len(conversations) : conversations[i].uuid = u
    /\ LET i == CHOOSE k \in 1..Len(conversations) :
                    /\ conversations[k].uuid = u
                    /\ \A j \in 1..(k - 1) : conversations[j].uuid # u
       IN  conversations[i].messages = {}

\* addMessage after db.addMessage: the title update, or the reload
AddMessage_Touched(t) ==
    /\ tasks[t].pc = "touched"
    /\ tasks[t].op = "add"
    /\ IF FirstMessageOf(tasks[t].uuid) /\ tasks[t].role = "user"
       THEN /\ \E tick \in BOOLEAN :
                    dbConversations' = Retitle(dbConversations, tasks[t].uuid, GenerateTitle, tick)
            /\ tasks' = [tasks EXCEPT ![t].pc = "titled", ![t].role = "user"]
       ELSE /\ dbConversations' = dbConversations
            /\ tasks' = [tasks EXCEPT ![t] =
                  [LoadBegin(t) EXCEPT !.role = "user"]]
    /\ UNCHANGED <<dbMessages, nextUuid, nextMsgId, conversations,
                   activeConversationUuid, localStorage>>

\* addMessage after db.updateConversationTitle
AddMessage_Titled(t) ==
    /\ tasks[t].pc = "titled"
    /\ tasks' = [tasks EXCEPT ![t] = LoadBegin(t)]
    /\ UNCHANGED <<dbVars, conversations, activeConversationUuid, localStorage>>

\* migrateFromLocalStorage(): nothing saved returns false; otherwise the
\* legacy conversation is created (its title is given, so conversations.add
\* is issued at once)
StartMigrate(t) ==
    /\ Free(t)
    /\ IF ~localStorage.saved
       THEN UNCHANGED <<dbVars, serviceVars>>
       ELSE /\ RoomForConversations(1)
            /\ RoomForMessages(LegacyMsgs)
            /\ \E tick \in BOOLEAN :
                    dbConversations' = ConversationsAdd(dbConversations, nextUuid, GivenTitle, tick)
            /\ nextUuid' = nextUuid + 1
            /\ tasks' = [tasks EXCEPT ![t] =
                  [IdleTask EXCEPT !.op = "migrate", !.pc = "migCreated",
                                   !.uuid = nextUuid, !.n = LegacyMsgs,
                                   !.flag = localStorage.active]]
            /\ UNCHANGED <<dbMessages, nextMsgId, conversations,
                           activeConversationUuid, localStorage>>

\* the loop over the legacy messages, then the end of the migration: the
\* active conversation, the removal of the legacy keys, the reload
Migrate_Loop(t) ==
    /\ tasks[t].op = "migrate"
    /\ tasks[t].pc \in {"migCreated", "touched"}
    /\ IF tasks[t].n > 0
       THEN /\ dbMessages' = MessagesAdd(dbMessages, nextMsgId, tasks[t].uuid)
            /\ nextMsgId' = nextMsgId + 1
            /\ tasks' = [tasks EXCEPT ![t].pc = "msgAdded", ![t].n = @ - 1]
            /\ UNCHANGED <<activeConversationUuid, localStorage>>
       ELSE /\ activeConversationUuid' =
                  IF tasks[t].flag THEN tasks[t].uuid
                  ELSE activeConversationUuid
            /\ localStorage' = NoLegacy
            /\ tasks' = [tasks EXCEPT ![t] = LoadBegin(t)]
            /\ UNCHANGED <<dbMessages, nextMsgId>>
    /\ UNCHANGED <<dbConversations, nextUuid, conversations>>

\* deleteConversation(uuid): db.deleteConversation is issued
StartDeleteConversation(t, u) ==
    /\ Free(t)
    /\ u < nextUuid
    /\ DeleteConversationTx(u)
    /\ tasks' = [tasks EXCEPT ![t] =
          [IdleTask EXCEPT !.op = "delete", !.pc = "deleted", !.uuid = u]]
    /\ UNCHANGED <<nextUuid, nextMsgId, conversations,
                   activeConversationUuid, localStorage>>

\* deleteConversation after db.deleteConversation
DeleteConversation_Deleted(t) ==
    /\ tasks[t].pc = "deleted"
    /\ IF activeConversationUuid = tasks[t].uuid
       THEN tasks' = [tasks EXCEPT
                ![t].pc = "remaining",
                ![t].n = IF dbConversations = <<>> THEN NoUuid
                         ELSE dbConversations[1].uuid]
       ELSE tasks' = [tasks EXCEPT ![t] = LoadBegin(t)]
    /\ UNCHANGED <<dbVars, conversations, activeConversationUuid, localStorage>>

\* deleteConversation after db.getAllConversations
DeleteConversation_Remaining(t) ==
    /\ tasks[t].pc = "remaining"
    /\ activeConversationUuid' = tasks[t].n
    /\ tasks' = [tasks EXCEPT ![t] = [LoadBegin(t) EXCEPT !.n = 0]]
    /\ UNCHANGED <<dbVars, conversations, localStorage>>

\* clearAllConversations()
StartClearAllConversations(t) ==
    /\ Free(t)
    /\ DeleteAllConversationsTx
    /\ tasks' = [tasks EXCEPT ![t] =
          [IdleTask EXCEPT !.op = "clear", !.pc = "cleared"]]
    /\ UNCHANGED <<nextUuid, nextMsgId, conversations,
                   activeConversationUuid, localStorage>>

ClearAllConversations_Cleared(t) ==
    /\ tasks[t].pc = "cleared"
    /\ conversations' = <<>>
    /\ activeConversationUuid' = NoUuid
    /\ tasks' = [tasks EXCEPT ![t] = IdleTask]
    /\ UNCHANGED <<dbVars, localStorage>>

\* selectConversation(uuid)
StartSelectConversation(t, u) ==
    /\ Free(t)
    /\ u < nextUuid
    /\ tasks' = [tasks EXCEPT ![t] =
          [IdleTask EXCEPT !.op = "select", !.pc = "got", !.uuid = u,
                           !.flag = GetConversation(u)]]
    /\ UNCHANGED <<dbVars, conversations, activeConversationUuid, localStorage>>

SelectConversation_Got(t) ==
    /\ tasks[t].pc = "got"
    /\ activeConversationUuid' =
          IF tasks[t].flag THEN tasks[t].uuid ELSE activeConversationUuid
    /\ tasks' = [tasks EXCEPT ![t] = IdleTask]
    /\ UNCHANGED <<dbVars, conversations, localStorage>>

\* importConversations(jsonData): JSON.parse throws, or the transaction runs
StartImportConversations(t, input) ==
    /\ Free(t)
    /\ IF ~input.json
       THEN UNCHANGED <<dbVars, serviceVars>>
       ELSE \E ticks \in LastTick(Len(input.records)) :
            LET db == Imported(input.records, ticks)
            IN  /\ db.nextUuid - 1 <= MaxConvs
                /\ (db.nextMsgId - 1) + SumOwed(TaskIds) <= MaxMsgs
                /\ dbConversations' = db.convs
                /\ dbMessages' = db.msgs
                /\ nextUuid' = db.nextUuid
                /\ nextMsgId' = db.nextMsgId
                /\ tasks' = [tasks EXCEPT ![t] =
                      [IdleTask EXCEPT !.op = "import", !.pc = "imported"]]
                /\ UNCHANGED <<conversations, activeConversationUuid,
                               localStorage>>

ImportConversations_Imported(t) ==
    /\ tasks[t].pc = "imported"
    /\ tasks' = [tasks EXCEPT ![t] = LoadBegin(t)]
    /\ UNCHANGED <<dbVars, conversations, activeConversationUuid, localStorage>>

\* exportConversation(uuid): getConversationWithMessages issues getConversation
StartExportConversation(t, u) ==
    /\ Free(t)
    /\ u < nextUuid
    /\ tasks' = [tasks EXCEPT ![t] =
          [IdleTask EXCEPT !.op = "export", !.pc = "xgot", !.uuid = u,
              !.list = SelectSeq(GetAllConversations, LAMBDA r : r.uuid = u)]]
    /\ UNCHANGED <<dbVars, conversations, activeConversationUuid, localStorage>>

\* getConversationWithMessages after getConversation: undefined, or the
\* messages query
ExportConversation_Got(t) ==
    /\ tasks[t].pc = "xgot"
    /\ IF tasks[t].list = <<>>
       THEN tasks' = [tasks EXCEPT ![t] = IdleTask]
       ELSE LET row == Head(tasks[t].list)
            IN  tasks' = [tasks EXCEPT
                  ![t].pc = "xread",
                  ![t].list = <<>>,
                  ![t].result = <<[uuid |-> row.uuid,
                      messages |-> GetMessagesForConversation(row.uuid),
                      snap |-> row.snap]>>]
    /\ UNCHANGED <<dbVars, conversations, activeConversationUuid, localStorage>>

\* getConversationWithMessages returns {...conversation, messages}
ExportConversation_Returns(t) ==
    /\ tasks[t].pc = "xread"
    /\ tasks' = [tasks EXCEPT ![t] = IdleTask]
    /\ UNCHANGED <<dbVars, conversations, activeConversationUuid, localStorage>>

(***************************************************************************)
(* Specification of the conversation store                                 *)
(***************************************************************************)
\* the store before the application has been used
StoreEmpty ==
    /\ dbConversations = <<>>
    /\ dbMessages = {}
    /\ nextUuid = 1
    /\ nextMsgId = 1
    /\ conversations = <<>>
    /\ activeConversationUuid = NoUuid
    /\ localStorage = NoLegacy
    /\ tasks = [t \in TaskIds |-> IdleTask]
    /\ nOps = 0
    /\ dbOp = NoDbOp

\* the database left by an earlier session: empty, or one conversation with
\* one message
StoredBefore ==
    \/ /\ dbConversations = <<>>
       /\ dbMessages = {}
       /\ nextUuid = 1
       /\ nextMsgId = 1
    \/ /\ dbConversations = Aged(<<Row(1, GenerateTitle, 1)>>, TRUE)
       /\ dbMessages = {[id |-> 1, conversationId |-> 1]}
       /\ nextUuid = 2
       /\ nextMsgId = 2

\* ConversationService's constructor has called loadConversationsFromDatabase
StoreInit ==
    /\ ManagerInit
    /\ failure = NoMarkers
    /\ PortIdle
    /\ apiKey = NoKey
    /\ feature = "text"
    /\ StoredBefore
    /\ conversations = <<>>
    /\ activeConversationUuid = NoUuid
    /\ localStorage \in {l \in LegacyStates : l.active => l.saved}
    /\ tasks = [t \in TaskIds |->
          IF t = 1
          THEN [IdleTask EXCEPT !.op = "load", !.pc = "listed",
                                !.list = GetAllConversations]
          ELSE IdleTask]
    /\ nOps = 0
    /\ dbOp = NoDbOp

managerVars == <<keyVars, mgrVars, callVars, lastOp, uploadVars, failure, portVars>>

\* a call of an operation, and the code after one of its awaits
Begins(A) ==
    /\ nOps < MaxOps
    /\ A
    /\ nOps' = nOps + 1
    /\ UNCHANGED <<dbOp, managerVars>>
Continues(A) ==
    /\ A
    /\ UNCHANGED <<nOps, dbOp, managerVars>>

StoreNext ==
    \/ \E t \in TaskIds, titled \in BOOLEAN :
          Begins(StartCreateConversation(t, titled))
    \/ \E t \in TaskIds, role \in Roles : Begins(StartAddMessage(t, role))
    \/ \E t \in TaskIds : Begins(StartMigrate(t))
    \/ \E t \in TaskIds, u \in 1..MaxConvs :
          Begins(StartDeleteConversation(t, u))
    \/ \E t \in TaskIds : Begins(StartClearAllConversations(t))
    \/ \E t \in TaskIds, u \in 1..MaxConvs :
          Begins(StartSelectConversation(t, u))
    \/ \E t \in TaskIds, input \in ImportInputs :
          Begins(StartImportConversations(t, input))
    \/ \E t \in TaskIds, u \in 1..MaxConvs :
          Begins(StartExportConversation(t, u))
    \/ \E t \in TaskIds : Continues(ReadMessages(t))
    \/ \E t \in TaskIds : Continues(LoadFinish(t))
    \/ \E t \in TaskIds : Continues(CreateConversation_Counted(t))
    \/ \E t \in TaskIds : Continues(CreateConversation_Created(t))
    \/ \E t \in TaskIds : Continues(DbAddMessage_Added(t))
    \/ \E t \in TaskIds : Continues(AddMessage_Touched(t))
    \/ \E t \in TaskIds : Continues(AddMessage_Titled(t))
    \/ \E t \in TaskIds : Continues(Migrate_Loop(t))
    \/ \E t \in TaskIds : Continues(DeleteConversation_Deleted(t))
    \/ \E t \in TaskIds : Continues(DeleteConversation_Remaining(t))
    \/ \E t \in TaskIds : Continues(ClearAllConversations_Cleared(t))
    \/ \E t \in TaskIds : Continues(SelectConversation_Got(t))
    \/ \E t \in TaskIds : Continues(ImportConversations_Imported(t))
    \/ \E t \in TaskIds : Continues(ExportConversation_Got(t))
    \/ \E t \in TaskIds : Continues(ExportConversation_Returns(t))

StoreSpec == StoreInit /\ [][StoreNext]_vars

(***************************************************************************)
(* Specification of DatabaseService alone: its methods are invoked on any  *)
(* content the tables can hold, createConversation and addMessage also     *)
(* while an earlier call is between its two transactions                   *)
(***************************************************************************)
\* the conversation tables over the ids 1..n, in any order
ConversationTables(n) ==
    LET orders == UNION {[1..k -> 1..n] : k \in 0..n}
        distinct == {f \in orders :
                        \A i, j \in DOMAIN f : i # j => f[i] # f[j]}
        \* the keys in any order; the rows of the latest millisecond are
        \* the first ones, by descending key
        tables ==
            UNION {{[i \in DOMAIN f |->
                       [uuid |-> f[i], title |-> GivenTitle, id |-> g[i],
                        fresh |-> i <= k]] :
                      g \in [DOMAIN f -> DOMAIN f], k \in 0..n} :
                   f \in distinct}
    IN  {cs \in tables :
            /\ cs = Settled(cs)
            /\ {cs[i].id : i \in 1..Len(cs)} = 1..Len(cs)
            /\ \A i \in 1..Len(cs) : cs[i].fresh =>
                  \A j \in 1..(i - 1) : cs[j].id > cs[i].id}
\* the message tables holding some of the ids 1..k, each message referring
\* to one of the conversation ids 1..n (stored or deleted)
MessageTables(k, n) ==
    UNION {{{[id |-> i, conversationId |-> f[i]] : i \in S} : f \in [S -> 1..n]} :
              S \in SUBSET (1..k)}

DbInit ==
    /\ ManagerInit
    /\ failure = NoMarkers
    /\ PortIdle
    /\ apiKey = NoKey
    /\ feature = "text"
    /\ conversations = <<>>
    /\ activeConversationUuid = NoUuid
    /\ localStorage = NoLegacy
    /\ tasks = [t \in TaskIds |-> IdleTask]
    /\ nOps = 0
    /\ dbOp = NoDbOp
    /\ nextUuid \in 1..(MaxConvs + 1)
    /\ nextMsgId \in 1..(MaxMsgs + 1)
    /\ dbConversations \in ConversationTables(nextUuid - 1)
    /\ dbMessages \in MessageTables(nextMsgId - 1, nextUuid - 1)

\* (variant: the count is not incremented)
ConversationTitle_Count(titled, count) ==
    IF titled THEN GivenTitle ELSE DefaultTitle(count)

\* title || `Conversation ${await this.conversations.count() + 1}`
ConversationTitle(titled, count) ==
    IF titled THEN GivenTitle ELSE DefaultTitle(count + 1)

\* createConversation(title?) up to its first await: generateUUID(); with a
\* title conversations.add is issued at once, without one
\* conversations.count() is awaited first
DbCreateConversationCall(t, titled) ==
    /\ nextUuid' = nextUuid + 1
    /\ IF titled
       THEN /\ \E tick \in BOOLEAN :
                 dbConversations' =
                    ConversationsAdd(dbConversations, nextUuid,
                                     ConversationTitle(TRUE, 0), tick)
            /\ dbOp' = [name |-> "createConversation", uuid |-> nextUuid]
            /\ UNCHANGED tasks
       ELSE /\ tasks' = [tasks EXCEPT ![t] =
                  [IdleTask EXCEPT !.op = "dbCreate", !.pc = "counted",
                                   !.uuid = nextUuid,
                                   !.n = Len(dbConversations)]]
            /\ dbOp' = [name |-> "createConversation: count", uuid |-> nextUuid]
            /\ UNCHANGED dbConversations
    /\ UNCHANGED <<dbMessages, nextMsgId>>

DbCreateConversation(t, titled) ==
    /\ Free(t)
    /\ RoomForConversations(1)
    /\ DbCreateConversationCall(t, titled)

\* createConversation() after conversations.count(): conversations.add
DbCreateConversation_Counted(t) ==
    /\ tasks[t].op = "dbCreate"
    /\ tasks[t].pc = "counted"
    /\ \E tick \in BOOLEAN :
          dbConversations' =
             ConversationsAdd(dbConversations, tasks[t].uuid,
                              ConversationTitle(FALSE, tasks[t].n), tick)
    /\ tasks' = [tasks EXCEPT ![t] = IdleTask]
    /\ dbOp' = [name |-> "createConversation", uuid |-> tasks[t].uuid]
    /\ UNCHANGED <<dbMessages, nextUuid, nextMsgId>>

\* addMessage(message) up to its first await: messages.add, whatever the
\* conversationId
DbAddMessage(t, u) ==
    /\ Free(t)
    /\ RoomForMessages(1)
    /\ dbMessages' = MessagesAdd(dbMessages, nextMsgId, u)
    /\ nextMsgId' = nextMsgId + 1
    /\ tasks' = [tasks EXCEPT ![t] =
          [IdleTask EXCEPT !.op = "dbAdd", !.pc = "msgAdded", !.uuid = u]]
    /\ dbOp' = [name |-> "addMessage", uuid |-> u]
    /\ UNCHANGED <<dbConversations, nextUuid>>

\* addMessage after messages.add: the conversation's updatedAt is bumped
DbAddMessage_Modify(t) ==
    /\ tasks[t].op = "dbAdd"
    /\ tasks[t].pc = "msgAdded"
    /\ \E tick \in BOOLEAN :
          dbConversations' = Touch(dbConversations, tasks[t].uuid, tick)
    /\ tasks' = [tasks EXCEPT ![t] = IdleTask]
    /\ dbOp' = [name |-> "addMessage: modify", uuid |-> tasks[t].uuid]
    /\ UNCHANGED <<dbMessages, nextUuid, nextMsgId>>

\* updateConversationTitle(uuid, title)
DbUpdateConversationTitle(u) ==
    /\ \E tick \in BOOLEAN :
          dbConversations' = Retitle(dbConversations, u, GenerateTitle, tick)
    /\ dbOp' = [name |-> "updateConversationTitle", uuid |-> u]
    /\ UNCHANGED <<dbMessages, nextUuid, nextMsgId>>

\* deleteConversation(uuid)
DbDeleteConversation(u) ==
    /\ DeleteConversationTx(u)
    /\ dbOp' = [name |-> "deleteConversation", uuid |-> u]
    /\ UNCHANGED <<nextUuid, nextMsgId>>

\* deleteAllConversations()
DbDeleteAllConversations ==
    /\ DeleteAllConversationsTx
    /\ dbOp' = [name |-> "deleteAllConversations", uuid |-> NoUuid]
    /\ UNCHANGED <<nextUuid, nextMsgId>>

\* what no method of DatabaseService writes
DbFrame == <<conversations, activeConversationUuid, localStorage, nOps, managerVars>>

DbNext ==
    \/ (\E t \in TaskIds, titled \in BOOLEAN : DbCreateConversation(t, titled))
            /\ UNCHANGED DbFrame
    \/ (\E t \in TaskIds : DbCreateConversation_Counted(t)) /\ UNCHANGED DbFrame
    \/ (\E t \in TaskIds, u \in 1..MaxConvs : DbAddMessage(t, u))
            /\ UNCHANGED DbFrame
    \/ (\E t \in TaskIds : DbAddMessage_Modify(t)) /\ UNCHANGED DbFrame
    \/ (\E u \in 1..MaxConvs : DbUpdateConversationTitle(u))
            /\ UNCHANGED <<serviceVars, nOps, managerVars>>
    \/ (\E u \in 1..MaxConvs : DbDeleteConversation(u))
            /\ UNCHANGED <<serviceVars, nOps, managerVars>>
    \/ DbDeleteAllConversations /\ UNCHANGED <<serviceVars, nOps, managerVars>>

DbSpec == DbInit /\ [][DbNext]_vars

(***************************************************************************)
(* Specification of deleteConversation on any content the tables can hold, *)
(* beside addMessage calls that may be between their two transactions      *)
(***************************************************************************)
CascadeNext ==
    \/ (\E t \in TaskIds, u \in 1..MaxConvs : DbAddMessage(t, u))
            /\ UNCHANGED DbFrame
    \/ (\E t \in TaskIds : DbAddMessage_Modify(t)) /\ UNCHANGED DbFrame
    \/ (\E u \in 1..MaxConvs : DbDeleteConversation(u))
            /\ UNCHANGED <<serviceVars, nOps, managerVars>>
    \/ DbDeleteAllConversations /\ UNCHANGED <<serviceVars, nOps, managerVars>>

CascadeSpec == DbInit /\ [][CascadeNext]_vars

Init ==
    /\ ManagerInit
    /\ failure = NoMarkers
    /\ PortIdle
    /\ StoreEmpty

Next ==
    \/ (\E k \in KeyInputs, v \in BOOLEAN : SetApiKey(k, v)) /\ UNCHANGED restVars
    \/ ClearApiKey /\ UNCHANGED restVars
    \/ RunEffect /\ UNCHANGED effectFrame
    \/ (\E n \in CountInputs, valid \in ValidInputs : Invoke(n, valid))
            /\ UNCHANGED restVars
    \/ (\E c \in CallIds : PreprocessSettles(c, TRUE) \/ PreprocessSettles(c, FALSE))
            /\ UNCHANGED restVars
    \/ (\E c \in CallIds, o \in ProviderOutcomes : ProviderSettles(c, o))
            /\ UNCHANGED restVars
    \/ CancelCurrentRequest /\ UNCHANGED restVars
    \/ ClearError /\ UNCHANGED restVars

Spec == Init /\ [][Next]_vars

(***************************************************************************)
(* Specification of the text manager (GoogleGenAiService) with its         *)
(* credential store, the credential taking every value setApiKey accepts   *)
(***************************************************************************)
KeyInit ==
    /\ Init
    /\ feature = "text"

KeyNext ==
    \/ (\E k \in AnyKeyInputs, v \in BOOLEAN : SetApiKey(k, v))
            /\ UNCHANGED restVars
    \/ ClearApiKey /\ UNCHANGED restVars
    \/ RunEffect /\ UNCHANGED effectFrame
    \/ Invoke(1, TRUE) /\ UNCHANGED restVars
    \/ (\E c \in CallIds, o \in ProviderOutcomes : ProviderSettles(c, o))
            /\ UNCHANGED restVars
    \/ CancelCurrentRequest /\ UNCHANGED restVars
    \/ ClearError /\ UNCHANGED restVars

KeySpec == KeyInit /\ [][KeyNext]_vars

(***************************************************************************)
(* PdfProcessingService.uploadPdf                                          *)
(***************************************************************************)
\* the branch of uploadPdf's catch block between NETWORK_ERROR and the fallback
UploadErrorType(msg) ==
    IF Includes(msg, "processing failed") \/ Includes(msg, "FAILED")
    THEN "FILE_PROCESSING_FAILED"
    ELSE "UNKNOWN_ERROR"

\* the if / else-if chain of the catch block of uploadPdf
ClassifyUpload(msg) ==
    IF Includes(msg, "API key") \/ Includes(msg, "PERMISSION_DENIED") THEN "API_KEY_MISSING"
    ELSE IF Includes(msg, "rate limit") \/ Includes(msg, "quota") THEN "RATE_LIMIT"
    ELSE IF Includes(msg, "network") \/ Includes(msg, "fetch") THEN "NETWORK_ERROR"
    ELSE UploadErrorType(msg)

\* the errorMessage the catch block of uploadPdf ends with
UploadErrorText(msg) ==
    IF Includes(msg, "API key") \/ Includes(msg, "PERMISSION_DENIED") THEN "invalid key"
    ELSE IF Includes(msg, "rate limit") \/ Includes(msg, "quota") THEN "rate limit exceeded"
    ELSE IF Includes(msg, "network") \/ Includes(msg, "fetch") THEN "network error"
    ELSE IF Includes(msg, "processing failed") \/ Includes(msg, "FAILED")
    THEN "processing failed"
    ELSE IF msg = EmptyMessage THEN "default text"
    ELSE "provider message"

\* an uploadPdf call is idle, awaits fetch (fetch), awaits the bytes of the
\* PDF (read), awaits
\* files.upload (upload), awaits the first files.get (get), awaits the
\* files.get of the polling loop (poll), awaits the 3 s timer of the loop
\* (timer), or has returned (done); state is the last getFile.state, complete
\* whether the uploaded file has a uri and a mimeType
UploadPending(i) == uploads[i].pc \notin {"idle", "done"}
FileStates == {"PROCESSING", "ACTIVE", "FAILED"}

\* how an awaited step of uploadPdf ends: it resolves, or rejects with the
\* message `failure`
UploadOutcomes ==
    {[kind |-> "ok", msg |-> NoMarkers], [kind |-> "error", msg |-> failure]}
\* what files.upload resolves with: a file with name, uri and mimeType, a file
\* without name, a file without uri or mimeType
UploadedFiles == {"complete", "noName", "noUri"}

\* the messages of the errors uploadPdf throws itself, and of the TypeError of
\* this.ai.files when this.ai is undefined: none of them has a tested
\* substring, except 'PDF processing failed. Please try again ...' and
\* `Failed to download PDF: ${response.statusText}`, which has the substrings
\* of the status text
ThrownMessage == NoMarkers
ProcessingFailedMessage == {"processing failed"}
DownloadFailedMessage ==
    IF failure = EmptyMessage THEN NoMarkers ELSE failure \ {"AbortError"}

\* request.source, and whether the request carries the url or the file the
\* source needs
UploadRequests ==
    {[source |-> src, given |-> g] : src \in {"url", "file"}, g \in BOOLEAN}

\* uploadPdf, up to the first await (fetch for a url, file.arrayBuffer for a
\* file), or to the end when the request lacks its url or its file
UploadPdf(request) ==
    /\ feature = "pdf"
    /\ \E i \in UploadIds :
          /\ uploads[i].pc = "idle"
          /\ \A j \in UploadIds : j < i => uploads[j].pc # "idle"
          /\ IF ~IsReady
             THEN UNCHANGED <<lastError, uploadVars>>
             ELSE IF ~request.given
             THEN /\ lastError' = [type |-> ClassifyUpload(ThrownMessage),
                                   text |-> UploadErrorText(ThrownMessage)]
                  /\ isUploading' = FALSE
                  /\ UNCHANGED <<uploads, processedPdfs>>
             ELSE /\ isUploading' = TRUE
                  /\ lastError' = NoError
                  /\ uploads' = [uploads EXCEPT
                                    ![i].pc = IF request.source = "url"
                                              THEN "fetch" ELSE "read"]
                  /\ UNCHANGED processedPdfs
    /\ lastOp' = "other"
    /\ UNCHANGED <<keyVars, feature, ai, isInitialized, isGenerating,
                   currentAbortController, history, effectDirty, callVars>>

\* what no step of uploadPdf writes
UploadFrame == <<apiKey, hasApiKey, storedKey, feature, ai, isInitialized,
                 isGenerating, currentAbortController, history, effectDirty,
                 callVars>>

\* the catch block and the finally block of uploadPdf, for an error with
\* message msg
UploadThrows(i, msg) ==
    /\ lastError' = [type |-> ClassifyUpload(msg), text |-> UploadErrorText(msg)]
    /\ isValidated' = IF ClassifyUpload(msg) = "API_KEY_MISSING"
                      THEN MarkAsInvalid ELSE isValidated
    /\ uploads' = [uploads EXCEPT ![i] = DoneUpload]
    /\ isUploading' = FALSE
    /\ UNCHANGED processedPdfs

\* the next awaited call on this.ai.files: a TypeError when resetService has
\* dropped the client meanwhile
UploadCalls(i, pc, complete) ==
    IF ai = NoKey
    THEN UploadThrows(i, ThrownMessage)
    ELSE /\ uploads' = [uploads EXCEPT ![i] = [pc |-> pc, state |-> "none",
                                                complete |-> complete]]
         /\ UNCHANGED <<lastError, isValidated, isUploading, processedPdfs>>

\* uploadPdf after the polling loop, and its finally block
UploadEnds(i, state) ==
    IF state = "FAILED" THEN UploadThrows(i, ProcessingFailedMessage)
    ELSE IF ~uploads[i].complete THEN UploadThrows(i, ThrownMessage)
    ELSE /\ isValidated' = MarkAsValidated
         /\ processedPdfs' = processedPdfs + 1
         /\ uploads' = [uploads EXCEPT ![i] = DoneUpload]
         /\ isUploading' = FALSE
         /\ UNCHANGED lastError

\* fetch(request.url) settles: it rejects, or resolves with a response that
\* is ok or not
FetchSettles(i, o, ok) ==
    /\ uploads[i].pc = "fetch"
    /\ IF o.kind = "error" THEN UploadThrows(i, o.msg)
       ELSE IF ~ok THEN UploadThrows(i, DownloadFailedMessage)
       ELSE /\ uploads' = [uploads EXCEPT ![i].pc = "read"]
            /\ UNCHANGED <<lastError, isValidated, isUploading, processedPdfs>>
    /\ lastOp' = "other"
    /\ UNCHANGED UploadFrame

\* response.arrayBuffer() or request.file.arrayBuffer() settles
UploadReadSettles(i, o) ==
    /\ uploads[i].pc = "read"
    /\ IF o.kind = "ok"
       THEN UploadCalls(i, "upload", TRUE)
       ELSE UploadThrows(i, o.msg)
    /\ lastOp' = "other"
    /\ UNCHANGED UploadFrame

\* this.ai.files.upload settles
FilesUploadSettles(i, o, file) ==
    /\ uploads[i].pc = "upload"
    /\ IF o.kind = "error" THEN UploadThrows(i, o.msg)
       ELSE IF file = "noName" THEN UploadThrows(i, ThrownMessage)
       ELSE UploadCalls(i, "get", file = "complete")
    /\ lastOp' = "other"
    /\ UNCHANGED UploadFrame

\* the files.get before the polling loop settles
FilesGetSettles(i, o, state) ==
    /\ uploads[i].pc = "get"
    /\ IF o.kind = "error" THEN UploadThrows(i, o.msg)
       ELSE IF state = "PROCESSING" THEN UploadCalls(i, "poll", uploads[i].complete)
       ELSE UploadEnds(i, state)
    /\ lastOp' = "other"
    /\ UNCHANGED UploadFrame

\* the files.get of the polling loop settles; the timer is awaited next
PollSettles(i, o, state) ==
    /\ uploads[i].pc = "poll"
    /\ IF o.kind = "error" THEN UploadThrows(i, o.msg)
       ELSE /\ uploads' = [uploads EXCEPT ![i].pc = "timer", ![i].state = state]
            /\ UNCHANGED <<lastError, isValidated, isUploading, processedPdfs>>
    /\ lastOp' = "other"
    /\ UNCHANGED UploadFrame

\* the timer of the polling loop fires and the loop condition is tested
TimerFires(i) ==
    /\ uploads[i].pc = "timer"
    /\ IF uploads[i].state = "PROCESSING"
       THEN UploadCalls(i, "poll", uploads[i].complete)
       ELSE UploadEnds(i, uploads[i].state)
    /\ lastOp' = "other"
    /\ UNCHANGED UploadFrame

\* the indexes removePdf is called with
PdfIndexes == (0 - 1)..MaxUploads

\* removePdf(index): filter((_, i) => i !== index)
RemovePdf(index) ==
    /\ feature = "pdf"
    /\ processedPdfs' = IF 0 <= index /\ index < processedPdfs
                        THEN processedPdfs - 1 ELSE processedPdfs
    /\ lastOp' = "other"
    /\ UNCHANGED <<keyVars, mgrVars, callVars, isUploading, uploads>>

\* clearProcessedPdfs()
ClearProcessedPdfs ==
    /\ feature = "pdf"
    /\ processedPdfs' = 0
    /\ lastOp' = "other"
    /\ UNCHANGED <<keyVars, mgrVars, callVars, isUploading, uploads>>

(***************************************************************************)
(* Specification of the first call of a manager whose provider fails with  *)
(* one message, and of the uploads of the PDF manager                      *)
(***************************************************************************)
CatchOutcomes ==
    {[kind |-> "ok", msg |-> NoMarkers], [kind |-> "error", msg |-> failure]}

CatchInit ==
    /\ ManagerInit
    /\ apiKey \in Keys
    /\ failure \in FailureMessages
    /\ PortIdle
    /\ StoreEmpty

CatchNext ==
    \/ RunEffect /\ UNCHANGED effectFrame
    \/ (\E n \in CountInputs : nCalls = 0 /\ Invoke(n, TRUE)) /\ UNCHANGED restVars
    \/ (\E c \in CallIds : PreprocessSettles(c, TRUE)) /\ UNCHANGED restVars
    \/ (\E c \in CallIds, o \in CatchOutcomes : ProviderSettles(c, o))
            /\ UNCHANGED restVars
    \/ CancelCurrentRequest /\ UNCHANGED restVars
    \/ (\E request \in UploadRequests : UploadPdf(request))
            /\ UNCHANGED <<storeVars, failure, portVars>>
    \/ (\E i \in UploadIds, o \in UploadOutcomes, ok \in BOOLEAN :
            FetchSettles(i, o, ok)) /\ UNCHANGED <<storeVars, failure, portVars>>
    \/ (\E i \in UploadIds, o \in UploadOutcomes : UploadReadSettles(i, o))
            /\ UNCHANGED <<storeVars, failure, portVars>>
    \/ (\E i \in UploadIds, o \in UploadOutcomes, file \in UploadedFiles :
            FilesUploadSettles(i, o, file)) /\ UNCHANGED <<storeVars, failure, portVars>>
    \/ (\E i \in UploadIds, o \in UploadOutcomes, state \in FileStates :
            FilesGetSettles(i, o, state)) /\ UNCHANGED <<storeVars, failure, portVars>>
    \/ (\E i \in UploadIds, o \in UploadOutcomes, state \in FileStates :
            PollSettles(i, o, state)) /\ UNCHANGED <<storeVars, failure, portVars>>
    \/ (\E i \in UploadIds : TimerFires(i)) /\ UNCHANGED <<storeVars, failure, portVars>>
    \/ (\E index \in PdfIndexes : RemovePdf(index))
            /\ UNCHANGED <<storeVars, failure, portVars>>
    \/ ClearProcessedPdfs /\ UNCHANGED <<storeVars, failure, portVars>>

CatchSpec == CatchInit /\ [][CatchNext]_vars

(***************************************************************************)
(* Specification of the uploads of the PDF manager while the credential is *)
(* set and cleared                                                         *)
(***************************************************************************)
UploadInit ==
    /\ ManagerInit
    /\ feature = "pdf"
    /\ apiKey \in Keys
    /\ failure \in {NoMarkers, EmptyMessage, {"PERMISSION_DENIED"}, {"FAILED"}}
    /\ PortIdle
    /\ StoreEmpty

UploadNext ==
    \/ (\E k \in Keys : SetApiKey(k, FALSE)) /\ UNCHANGED restVars
    \/ ClearApiKey /\ UNCHANGED restVars
    \/ RunEffect /\ UNCHANGED effectFrame
    \/ (\E request \in UploadRequests : UploadPdf(request))
            /\ UNCHANGED <<storeVars, failure, portVars>>
    \/ (\E i \in UploadIds, o \in UploadOutcomes, ok \in BOOLEAN :
            FetchSettles(i, o, ok)) /\ UNCHANGED <<storeVars, failure, portVars>>
    \/ (\E i \in UploadIds, o \in UploadOutcomes : UploadReadSettles(i, o))
            /\ UNCHANGED <<storeVars, failure, portVars>>
    \/ (\E i \in UploadIds, o \in UploadOutcomes, file \in UploadedFiles :
            FilesUploadSettles(i, o, file)) /\ UNCHANGED <<storeVars, failure, portVars>>
    \/ (\E i \in UploadIds, o \in UploadOutcomes, state \in FileStates :
            FilesGetSettles(i, o, state)) /\ UNCHANGED <<storeVars, failure, portVars>>
    \/ (\E i \in UploadIds, o \in UploadOutcomes, state \in FileStates :
            PollSettles(i, o, state)) /\ UNCHANGED <<storeVars, failure, portVars>>
    \/ (\E i \in UploadIds : TimerFires(i)) /\ UNCHANGED <<storeVars, failure, portVars>>
    \/ (\E index \in PdfIndexes : RemovePdf(index))
            /\ UNCHANGED <<storeVars, failure, portVars>>
    \/ ClearProcessedPdfs /\ UNCHANGED <<storeVars, failure, portVars>>

UploadSpec == UploadInit /\ [][UploadNext]_vars

(***************************************************************************)
(* DatabaseService: exportConversation and importConversations, the        *)
(* messages carrying content, role and timestamp                           *)
(***************************************************************************)
\* a Date: a time value or Invalid Date
DateOf(t) == [valid |-> TRUE, time |-> t]
InvalidDate == [valid |-> FALSE, time |-> 0]
\* the JSON value of a timestamp property: absent, null or an ISO-8601 string
JsonAbsent == [json |-> "absent", time |-> 0]
JsonNull == [json |-> "null", time |-> 0]
JsonString(t) == [json |-> "string", time |-> t]
\* Date.prototype.toJSON, called by JSON.stringify: null for Invalid Date
DateToJson(d) == IF d.valid THEN JsonString(d.time) ELSE JsonNull
\* new Date(value) for a parsed JSON value: new Date(null) is the epoch,
\* new Date(undefined) is Invalid Date
NewDate(j) ==
    IF j.json = "string" THEN DateOf(j.time)
    ELSE IF j.json = "null" THEN DateOf(0)
    ELSE InvalidDate

\* the content and role of the messages the inputs are made of
Payloads == {[content |-> "a", role |-> "user"],
             [content |-> "b", role |-> "assistant"]}
\* an entry of a record's messages array: null, or a value whose content,
\* role and timestamp properties can be read
NullItem == [null |-> TRUE, content |-> "a", role |-> "user", timestamp |-> JsonAbsent]
MessageItem(p, j) ==
    [null |-> FALSE, content |-> p.content, role |-> p.role, timestamp |-> j]
\* an entry that is a number, a string, a boolean, an array or an object
\* without these properties: reading them gives undefined
Undefined == "undefined"
UndefinedItem == MessageItem([content |-> Undefined, role |-> Undefined], JsonAbsent)
MessageItems ==
    {MessageItem(p, j) : p \in Payloads,
                         j \in {JsonAbsent} \cup {JsonString(t) : t \in 1..MaxTime}}
ItemLists ==
    UNION {[1..n -> MessageItems \cup {NullItem}] : n \in 0..MaxMsgs}
\* the messages property of a record: absent, not an array, an array
NoMessages == [kind |-> "absent", items |-> <<>>]
NotAnArray == [kind |-> "other", items |-> <<>>]
ArrayOf(items) == [kind |-> "array", items |-> items]
\* a parsed record: is it truthy, is its title a string, are createdAt and
\* updatedAt truthy
Shaped(messages) ==
    [truthy |-> TRUE, title |-> TRUE, createdAt |-> TRUE, updatedAt |-> TRUE,
     messages |-> messages]
Misshaped ==
    {[Shaped(NoMessages) EXCEPT !.truthy = FALSE, !.title = FALSE,
                                !.createdAt = FALSE, !.updatedAt = FALSE],
     [Shaped(NoMessages) EXCEPT !.title = FALSE, !.createdAt = FALSE,
                                !.updatedAt = FALSE],
     [Shaped(NoMessages) EXCEPT !.title = FALSE],
     [Shaped(NoMessages) EXCEPT !.createdAt = FALSE],
     [Shaped(NoMessages) EXCEPT !.updatedAt = FALSE]}
\* the texts given to importConversations: not JSON, or JSON holding a list
\* of records (a top-level value that is not an array is a list of one)
NotJson == [json |-> FALSE, records |-> <<>>]
Json(records) == [json |-> TRUE, records |-> records]
\* one record with any messages array
SingleInputs == {Json(<<Shaped(ArrayOf(items))>>) : items \in ItemLists}
\* batches: records of every shape, their messages all stamped alike
StampedLists ==
    UNION {[1..n -> {MessageItem(p, JsonString(1)) : p \in Payloads} \cup {NullItem}] :
              n \in 0..MaxMsgs}
BatchRecords ==
    Misshaped \cup {Shaped(NoMessages), Shaped(NotAnArray)}
              \cup {Shaped(ArrayOf(items)) : items \in StampedLists}
PlainRecords ==
    {[Shaped(NoMessages) EXCEPT !.truthy = FALSE, !.title = FALSE,
                                !.createdAt = FALSE, !.updatedAt = FALSE],
     [Shaped(NoMessages) EXCEPT !.updatedAt = FALSE],
     Shaped(NoMessages), Shaped(ArrayOf(<<NullItem>>)),
     Shaped(ArrayOf(<<MessageItem([content |-> "a", role |-> "user"],
                                  JsonString(1))>>))}
BatchInputs ==
    {NotJson, Json(<<>>)}
    \cup {Json(<<r>>) : r \in BatchRecords}
    \cup {Json(<<r1, r2>>) : r1 \in PlainRecords, r2 \in PlainRecords}

\* batches of one or two plain records, or records whose messages array
\* holds an entry that is not a message object
PartialRecords ==
    PlainRecords
    \cup {Shaped(ArrayOf(<<UndefinedItem>>)),
          Shaped(ArrayOf(<<MessageItem([content |-> "a", role |-> "user"],
                                       JsonString(1)), UndefinedItem>>))}
PartialInputs ==
    {Json(<<r>>) : r \in PartialRecords}
    \cup {Json(<<r1, r2>>) : r1 \in PartialRecords, r2 \in PartialRecords}

\* (variant: only the title is checked)
IsValidConversationData_TitleOnly(obj) == obj.truthy /\ obj.title

\* isValidConversationData(obj)
IsValidConversationData(obj) ==
    obj.truthy /\ obj.title /\ obj.createdAt /\ obj.updatedAt

\* the rows of a conversation in the order of the conversationId index
MessagesOf(ms, u) == {m \in ms : m.conversationId = u}
RECURSIVE ById(_)
ById(S) ==
    IF S = {} THEN <<>>
    ELSE LET m == CHOOSE x \in S : \A y \in S : x.id <= y.id
         IN  <<m>> \o ById(S \ {m})
\* the comparison sortBy('timestamp') makes: an Invalid Date is neither less
\* nor greater than any date
CompareDates(a, b) ==
    IF a.valid /\ b.valid
    THEN IF a.time > b.time THEN 1 ELSE IF a.time < b.time THEN -1 ELSE 0
    ELSE 0
\* the comparison is a consistent one on seq (comparing equal is transitive):
\* no Invalid Date stands beside two dates of different times
ConsistentOn(seq) ==
    \A i, j, k \in 1..Len(seq) :
        (CompareDates(seq[i].timestamp, seq[j].timestamp) = 0
            /\ CompareDates(seq[j].timestamp, seq[k].timestamp) = 0)
        => CompareDates(seq[i].timestamp, seq[k].timestamp) = 0
\* the orders of the elements of seq
Reorderings(seq) ==
    {[i \in 1..Len(seq) |-> seq[p[i]]] :
        p \in {q \in [1..Len(seq) -> 1..Len(seq)] :
                  \A i, j \in 1..Len(seq) : q[i] = q[j] => i = j}}
\* the stable sort with that comparison (insertion from the right)
RECURSIVE InsertSorted(_, _)
InsertSorted(seq, m) ==
    IF seq = <<>> THEN <<m>>
    ELSE IF CompareDates(seq[Len(seq)].timestamp, m.timestamp) > 0
    THEN Append(InsertSorted(SubSeq(seq, 1, Len(seq) - 1), m), seq[Len(seq)])
    ELSE Append(seq, m)
RECURSIVE StableSort(_)
StableSort(seq) ==
    IF seq = <<>> THEN <<>>
    ELSE InsertSorted(StableSort(SubSeq(seq, 1, Len(seq) - 1)), seq[Len(seq)])
\* the arrays sortBy('timestamp') can return: Array.prototype.sort is stable
\* with a consistent comparison, and the order it leaves is
\* implementation-defined with any other
SortByTimestamp(seq) ==
    IF ConsistentOn(seq) THEN {StableSort(seq)} ELSE Reorderings(seq)
\* the values getConversationWithMessages(uuid).messages can have
MessagesSorted(ms, u) == SortByTimestamp(ById(MessagesOf(ms, u)))
PayloadsOf(seq) ==
    [i \in 1..Len(seq) |-> [content |-> seq[i].content, role |-> seq[i].role]]

\* JSON.stringify(conversation, null, 2), as importConversations parses it
Stringify(messages) ==
    Json(<<Shaped(ArrayOf(
        [i \in 1..Len(messages) |->
            [null |-> FALSE, content |-> messages[i].content,
             role |-> messages[i].role,
             timestamp |-> DateToJson(messages[i].timestamp)]]))>>)

\* importConversations: the loop over a record's messages
RECURSIVE AddItems(_, _, _)
AddItems(items, u, db) ==
    IF items = <<>> \/ db.thrown THEN db
    ELSE LET msgData == Head(items)
         IN  IF msgData.null THEN [db EXCEPT !.thrown = TRUE]
             ELSE AddItems(Tail(items), u,
                    [db EXCEPT !.msgs = @ \cup
                                 {[id |-> db.nextMsgId, conversationId |-> u,
                                   content |-> msgData.content,
                                   role |-> msgData.role,
                                   timestamp |-> NewDate(msgData.timestamp)]},
                               !.nextMsgId = @ + 1])
\* generateUUID(): gen[n] is the value of the n-th call.  The value is built
\* from Math.random() and compared with nothing; Fresh is the run in which
\* no two calls return the same value.
Fresh == [n \in Nat |-> n]

\* const newUuid = this.generateUUID(): convData.uuid is not read
NewUuid(convData, generated) == generated

\* importConversations: the body of the transaction, until it ends or throws,
\* in a run where generateUUID returns gen[1], gen[2], ...
RECURSIVE ImportTxWith(_, _, _, _)
ImportTxWith(recs, db, gen, ticks) ==
    IF recs = <<>> \/ db.thrown THEN db
    ELSE LET convData == Head(recs)
             newUuid == NewUuid(convData, gen[db.nextUuid])
             added == [db EXCEPT
                         !.convs = ConversationsAdd(@, newUuid, GivenTitle,
                                                    Head(ticks)),
                         !.nextUuid = @ + 1]
         IN  ImportTxWith(Tail(recs),
                IF ~IsValidConversationData(convData) THEN db
                ELSE IF convData.messages.kind = "array"
                THEN AddItems(convData.messages.items, newUuid, added)
                ELSE added,
                gen, Tail(ticks))

ImportTx(recs, db) == ImportTxWith(recs, db, Fresh, NoTick(Len(recs)))

\* (variant: the writes made before the exception stay)
Aborted_Partial(before, partial) == partial

\* the tables after the transaction was aborted by an exception
Aborted(before, partial) == before

\* exportConversation(uuid) up to its first await:
\* getConversationWithMessages issues getConversation(uuid)
PortExportConversation(t, u) ==
    /\ Free(t)
    /\ tasks' = [tasks EXCEPT ![t] =
          [IdleTask EXCEPT !.op = "dbExport", !.pc = "xgot", !.uuid = u,
                           !.flag = GetConversation(u)]]
    /\ dbOp' = [name |-> "exportConversation", uuid |-> u]
    /\ UNCHANGED <<dbVars, portVars>>

\* getConversationWithMessages after getConversation: without a row
\* undefined is returned and exportConversation returns null, with one the
\* messages query is issued
PortExportConversation_Got(t) ==
    /\ tasks[t].op = "dbExport"
    /\ tasks[t].pc = "xgot"
    /\ IF tasks[t].flag
       THEN /\ \E messages \in MessagesSorted(dbMessages, tasks[t].uuid) :
                  tasks' = [tasks EXCEPT ![t].pc = "xread",
                                         ![t].result = messages]
            /\ UNCHANGED blob
       ELSE /\ tasks' = [tasks EXCEPT ![t] = IdleTask]
            /\ blob' = NoBlob
    /\ dbOp' = [name |-> "exportConversation: got", uuid |-> tasks[t].uuid]
    /\ UNCHANGED <<dbVars, importResult>>

\* exportConversation after getConversationWithMessages:
\* JSON.stringify({...conversation, messages}, null, 2)
PortExportConversation_Returns(t) ==
    /\ tasks[t].op = "dbExport"
    /\ tasks[t].pc = "xread"
    /\ blob' = [exists |-> TRUE, uuid |-> tasks[t].uuid,
                source |-> PayloadsOf(tasks[t].result),
                text |-> Stringify(tasks[t].result)]
    /\ tasks' = [tasks EXCEPT ![t] = IdleTask]
    /\ dbOp' = [name |-> "exportConversation: returns", uuid |-> tasks[t].uuid]
    /\ UNCHANGED <<dbVars, importResult>>

\* the tables and counters as one record
Tables ==
    [convs |-> dbConversations, msgs |-> dbMessages,
     nextUuid |-> nextUuid, nextMsgId |-> nextMsgId, thrown |-> FALSE]

\* importConversations(jsonData), awaited, in a run where generateUUID
\* returns gen[1], gen[2], ...
PortImportConversationsWith(input, gen) ==
    \E ticks \in LastTick(Len(input.records)) :
    LET before == Tables
        partial == ImportTxWith(input.records, before, gen, ticks)
        after == IF partial.thrown THEN Aborted(before, partial) ELSE partial
    IN  /\ partial.nextMsgId - 1 <= MaxConvs + MaxMsgs
        /\ IF ~input.json
           THEN /\ importResult' = NoImport
                /\ UNCHANGED dbVars
           ELSE /\ dbConversations' = after.convs
                /\ dbMessages' = after.msgs
                /\ nextUuid' = after.nextUuid
                /\ nextMsgId' = after.nextMsgId
                /\ importResult' =
                      [returned |-> ~partial.thrown,
                       written |-> (partial.nextUuid - nextUuid)
                                     + (partial.nextMsgId - nextMsgId),
                       skipped |-> Len(SelectSeq(input.records,
                                     LAMBDA r : ~IsValidConversationData(r)))]
        /\ dbOp' = [name |-> "importConversations", uuid |-> NoUuid]
        /\ UNCHANGED blob

\* importConversations(jsonData), awaited
PortImportConversations(input) ==
    /\ ImportTx(input.records, Tables).nextUuid - 1 <= MaxConvs
    /\ PortImportConversationsWith(input, Fresh)

\* createConversation(title) and addMessage(message) with the caller's data
PortCreateConversation ==
    /\ nextUuid - 1 < MaxConvs
    /\ \E tick \in BOOLEAN : dbConversations' = ConversationsAdd(dbConversations, nextUuid, GivenTitle, tick)
    /\ nextUuid' = nextUuid + 1
    /\ dbOp' = [name |-> "createConversation", uuid |-> nextUuid]
    /\ UNCHANGED <<dbMessages, nextMsgId, portVars>>

\* addMessage(message) up to its first await: messages.add, whatever the
\* conversationId; DbAddMessage_Modify is the code after the await
PortAddMessage(t, u, p, time) ==
    /\ Free(t)
    /\ nextMsgId - 1 < MaxConvs * MaxMsgs
    /\ Cardinality(MessagesOf(dbMessages, u)) < MaxMsgs
    /\ dbMessages' = dbMessages \cup
          {[id |-> nextMsgId, conversationId |-> u, content |-> p.content,
            role |-> p.role, timestamp |-> DateOf(time)]}
    /\ nextMsgId' = nextMsgId + 1
    /\ tasks' = [tasks EXCEPT ![t] =
          [IdleTask EXCEPT !.op = "dbAdd", !.pc = "msgAdded", !.uuid = u]]
    /\ dbOp' = [name |-> "addMessage", uuid |-> u]
    /\ UNCHANGED <<dbConversations, nextUuid, portVars>>

PortDeleteAllConversations ==
    /\ DbDeleteAllConversations
    /\ UNCHANGED portVars

PortFrame == <<serviceVars, nOps, keyVars, mgrVars, callVars, lastOp, uploadVars,
               failure>>
\* the caller awaits each call before it makes the next one
Awaited == \A t \in TaskIds : tasks[t].pc = "idle"
\* what the methods cut at their awaits leave alone
PortStepFrame == <<conversations, activeConversationUuid, localStorage, nOps,
                   keyVars, mgrVars, callVars, lastOp, uploadVars, failure>>

PortInit ==
    /\ Init
    /\ apiKey = NoKey
    /\ feature = "text"

(***************************************************************************)
(* Specification of importConversations on batches                         *)
(***************************************************************************)
BatchNext ==
    \/ PortCreateConversation /\ UNCHANGED PortFrame
    \/ (\E input \in BatchInputs : PortImportConversations(input))
            /\ UNCHANGED PortFrame
    \/ PortDeleteAllConversations /\ UNCHANGED PortFrame

BatchSpec == PortInit /\ [][BatchNext]_vars

(***************************************************************************)
(* Specification of importConversations on batches of plain records        *)
(***************************************************************************)
PartialNext ==
    \/ PortCreateConversation /\ UNCHANGED PortFrame
    \/ (\E input \in PartialInputs : PortImportConversations(input))
            /\ UNCHANGED PortFrame
    \/ PortDeleteAllConversations /\ UNCHANGED PortFrame

PartialSpec == PortInit /\ [][PartialNext]_vars

(***************************************************************************)
(* the store is cleared and the exported text is imported, each call       *)
(* awaited, the messages added to stored conversations                     *)
(***************************************************************************)
StoreIsEmpty == dbConversations = <<>> /\ dbMessages = {}

RoundTripNext ==
    \/ (Awaited /\ StoreIsEmpty /\ PortCreateConversation) /\ UNCHANGED PortFrame
    \/ (\E t \in TaskIds, u \in 1..MaxConvs, p \in Payloads, time \in 1..MaxTime :
            Awaited /\ GetConversation(u) /\ PortAddMessage(t, u, p, time))
            /\ UNCHANGED PortStepFrame
    \/ (\E t \in TaskIds : DbAddMessage_Modify(t))
            /\ UNCHANGED <<portVars, PortStepFrame>>
    \/ (\E input \in SingleInputs :
            Awaited /\ StoreIsEmpty /\ PortImportConversations(input))
            /\ UNCHANGED PortFrame
    \/ (\E t \in TaskIds, u \in 1..MaxConvs : Awaited /\ PortExportConversation(t, u))
            /\ UNCHANGED PortStepFrame
    \/ (\E t \in TaskIds : PortExportConversation_Got(t)) /\ UNCHANGED PortStepFrame
    \/ (\E t \in TaskIds : PortExportConversation_Returns(t))
            /\ UNCHANGED PortStepFrame
    \/ (Awaited /\ PortDeleteAllConversations) /\ UNCHANGED PortFrame
    \/ (Awaited /\ blob.exists /\ StoreIsEmpty /\ PortImportConversations(blob.text))
            /\ UNCHANGED PortFrame

RoundTripSpec == PortInit /\ [][RoundTripNext]_vars

(***************************************************************************)
(* Specification of the identifiers: generateUUID builds its value from    *)
(* Math.random() and compares it with nothing, and the uuid index is not   *)
(* unique: it returns any value, also one that is in use                   *)
(***************************************************************************)
\* the values generateUUID returns and the imported records carry
Uuids == {1, 2}

\* a record that carries the uuid of the conversation it was exported from
Carrying(r, u) ==
    [truthy |-> r.truthy, title |-> r.title, createdAt |-> r.createdAt,
     updatedAt |-> r.updatedAt, messages |-> r.messages, uuid |-> u]

CarryingRecords ==
    {Carrying(Shaped(m), u) :
        m \in {NoMessages,
               ArrayOf(<<MessageItem([content |-> "a", role |-> "user"],
                                     JsonString(1))>>)},
        u \in Uuids}
UuidInputs ==
    {Json(<<r>>) : r \in CarryingRecords}
    \cup {Json(<<r1, r2>>) : r1 \in CarryingRecords, r2 \in CarryingRecords}

\* the run in which the next call of generateUUID returns a and the calls
\* after it return b
Returning(a, b) == [n \in Nat |-> IF n = nextUuid THEN a ELSE b]

\* createConversation(title) in a run where generateUUID returns a
UuidCreateConversation(a) ==
    /\ Len(dbConversations) < MaxConvs + 1
    /\ \E tick \in BOOLEAN : dbConversations' = ConversationsAdd(dbConversations, a, GivenTitle, tick)
    /\ nextUuid' = nextUuid + 1
    /\ dbOp' = [name |-> "createConversation", uuid |-> a]
    /\ UNCHANGED <<dbMessages, nextMsgId, portVars>>

\* importConversations(jsonData), awaited, in a run where generateUUID
\* returns a for the first record and b for the records after it
UuidImportConversations(input, a, b) ==
    /\ Len(dbConversations) + Len(input.records) <= MaxConvs + 1
    /\ PortImportConversationsWith(input, Returning(a, b))

UuidNext ==
    \/ (\E a \in Uuids : UuidCreateConversation(a)) /\ UNCHANGED PortFrame
    \/ (\E input \in UuidInputs, a \in Uuids, b \in Uuids :
            UuidImportConversations(input, a, b)) /\ UNCHANGED PortFrame

UuidSpec == PortInit /\ [][UuidNext]_vars


(***************************************************************************)
(* Properties of the manager                                               *)
(***************************************************************************)
InFlight(c) == calls[c].pc \in {"prep", "await"}
Settles(c) == InFlight(c) /\ calls'[c].pc = "done"
InHistory(c) == \E i \in 1..Len(history) : history[i] = c
LiveCalls == {c \in CallIds : InFlight(c) /\ ~calls[c].aborted}

\* C1: a call that was followed by a later invoke never adds a history entry:
\* when a call finishes after a newer call was invoked, the History Log is
\* left as it was.
C1_SupersededNeverAppends ==
    [][\A c \in CallIds : (Settles(c) /\ c < nCalls) => history' = history]_vars

\* C2: when a cancelled call (its signal is aborted) finishes, lastError, the
\* generating flag, the validated flag and the History Log are unchanged.
C2_CancelledChangesNothing ==
    [][\A c \in CallIds : (Settles(c) /\ calls[c].aborted)
            => UNCHANGED <<lastError, isGenerating, isValidated, history>>]_vars

\* C3: at most one call is outstanding and not cancelled, and the generating
\* flag is true whenever there is one.
C3_AtMostOneLive ==
    /\ Cardinality(LiveCalls) <= 1
    /\ (LiveCalls # {} => isGenerating)

\* C7: a call for which a stop was requested while it was the latest call in
\* flight neither appends to the History Log nor marks the credential
\* validated when it finishes.
C7_StopDiscardsResult ==
    [][\A c \in CallIds : (Settles(c) /\ calls[c].stopReq)
            => (history' = history /\ (isValidated' => isValidated))]_vars

\* C8: a call is stopped mid-flight, the next call is invoked right after the
\* stop, both have finished (in either order) and the second ran to its end:
\* the History Log holds the second call's entry and none for the first.
C8_StopThenInvoke ==
    \A c \in 2..MaxCalls :
        (/\ KeepsHistory(feature)
         /\ calls[c].afterStop
         /\ calls[c].pc = "done" /\ calls[c].result = "success"
         /\ calls[c - 1].pc = "done")
        => (InHistory(c) /\ ~InHistory(c - 1))

C8_Witness ==
    \E c \in 2..MaxCalls :
        /\ feature = "image"
        /\ calls[c].afterStop
        /\ calls[c].pc = "done" /\ calls[c].result = "success"
        /\ calls[c - 1].pc = "done"
        /\ history = <<c>>

\* C9: an invoke on a manager without credential or client handle is refused
\* as not ready, starts no call and leaves the generating flag, every call's
\* signal, the controller and the History Log unchanged.
C9_NotReadyRefused ==
    [][(lastOp' \in InvokeOps /\ (~hasApiKey \/ ai = NoKey \/ ~isInitialized))
            => (/\ lastOp' = "invokeNotReady"
                /\ UNCHANGED <<isGenerating, calls, nCalls, currentAbortController,
                               history>>)]_vars

C9_Witness ==
    /\ lastOp = "invokeNotReady"
    /\ ~hasApiKey
    /\ \E c \in CallIds : InFlight(c) /\ ~calls[c].aborted /\ currentAbortController = c
    /\ isGenerating

\* C10 (as claimed): the invoke that follows a credential rejection is
\* refused as not ready.
C10_RejectedFailsFast ==
    [][(lastOp = "rejected" /\ lastOp' \in InvokeOps) => lastOp' = "invokeNotReady"]_vars

\* C10 (amended): a credential rejection sets the validated flag to false and
\* lastError to API_KEY_MISSING, and leaves the token, hasApiKey, the stored
\* copy and the client handle as they were, so the manager's readiness is
\* not changed by it.
C10_RejectedMarksInvalid ==
    [][lastOp' = "rejected"
            => (/\ ~isValidated'
                /\ lastError'.type = "API_KEY_MISSING"
                /\ UNCHANGED <<apiKey, hasApiKey, storedKey, ai, isInitialized>>)]_vars

C10_Witness ==
    /\ lastOp = "rejected"
    /\ IsReady
    /\ ~isValidated
    /\ lastError.type = "API_KEY_MISSING"


\* the step in which the constructor effect runs resetService()
ResetRuns == effectDirty /\ ~effectDirty' /\ ~Truthy(apiKey)

\* C11: the reactive reset that follows the credential becoming empty sets
\* isInitialized and the generating flag to false, drops the client handle,
\* sets lastError to API_KEY_MISSING and aborts every call in flight.
C11_ResetAbortsInFlight ==
    [][ResetRuns =>
          /\ ~isInitialized'
          /\ ~isGenerating'
          /\ ai' = NoKey
          /\ lastError'.type = "API_KEY_MISSING"
          /\ \A c \in CallIds : InFlight(c) => calls'[c].aborted]_vars

\* the provider call of call c, which was not cancelled, fails with `failure`
ProviderFails(c) == Settles(c) /\ ~calls[c].aborted /\ calls'[c].result = "failed"
\* an awaited step of an uploadPdf rejects with `failure`
UploadFails == \E i \in UploadIds : UploadPending(i) /\ UploadThrows(i, failure)
\* the order of the taxonomy, `specific` being the feature's own kind
FirstMatch(msg, specific) ==
    IF Includes(msg, "API key") \/ Includes(msg, "PERMISSION_DENIED") THEN "API_KEY_MISSING"
    ELSE IF Includes(msg, "rate limit") \/ Includes(msg, "quota") THEN "RATE_LIMIT"
    ELSE IF Includes(msg, "network") \/ Includes(msg, "fetch") THEN "NETWORK_ERROR"
    ELSE IF Includes(msg, "invalid") \/ Includes(msg, "bad request") THEN "INVALID_REQUEST"
    ELSE specific

\* C13: a failure that is not a cancellation is given the first kind of the
\* order credential, rate limit, network, invalid request, feature-specific,
\* unknown that its message matches, in every catch block (invoke and
\* uploadPdf); a message matching nothing gets UNKNOWN_ERROR.
C13_FirstMatchWins ==
    [][~IsCancellation(failure) =>
        /\ \A c \in CallIds : ProviderFails(c) =>
              lastError'.type = FirstMatch(failure, FeatureErrorType(feature, failure))
        /\ UploadFails =>
              lastError'.type = FirstMatch(failure, UploadErrorType(failure))]_vars

\* C14: when a provider call that was not cancelled fails with a message
\* containing PERMISSION_DENIED, lastError becomes API_KEY_MISSING and the
\* validated flag becomes false, whatever else the message contains.
C14_PermissionDeniedRejects ==
    [][Includes(failure, "PERMISSION_DENIED") =>
        /\ \A c \in CallIds : ProviderFails(c) =>
              (lastError'.type = "API_KEY_MISSING" /\ ~isValidated')
        /\ UploadFails => (lastError'.type = "API_KEY_MISSING" /\ ~isValidated')]_vars

\* C15: in a manager that keeps a history, a call that completes successfully
\* without having been cancelled puts exactly one entry at the head of the
\* History Log and leaves the credential (still present) marked validated.
C15_SuccessAppendsAndValidates ==
    [][\A c \in CallIds :
          (/\ Settles(c)
           /\ ~calls[c].aborted
           /\ calls'[c].result = "success"
           /\ KeepsHistory(feature)
           /\ Truthy(apiKey))
          => (history' = <<c>> \o history /\ isValidated')]_vars

\* C12: isInitialized is true only with a client handle built from a
\* non-empty credential, and isReady() is false whenever the credential
\* store holds no credential, also between clearApiKey and the reset.
C12_ReadyOnlyWithCredential ==
    /\ isInitialized => Truthy(ai)
    /\ ~Truthy(apiKey) => ~IsReady

\* the interval between clearApiKey and the reset: the credential is gone,
\* the manager still holds its handle and its initialized flag
C12_Witness ==
    /\ apiKey = NoKey
    /\ effectDirty
    /\ isInitialized
    /\ Truthy(ai)
    /\ ~IsReady

(***************************************************************************)
(* Properties of the conversation store                                    *)
(***************************************************************************)
\* C4: every stored message's conversationId is the id of a stored
\* conversation: no orphaned message exists.
C4_NoOrphanedMessage ==
    \A m \in dbMessages : m.conversationId \in ConvIds

\* C5: after deleteConversation(id) has completed the store holds no
\* conversation with that id and no message whose conversationId is id,
\* whatever the store held before; conversations and messages with other
\* ids are unchanged.
C5_DeleteCascades ==
    [][\A u \in 1..MaxConvs :
          dbOp' = [name |-> "deleteConversation", uuid |-> u] =>
            /\ u \notin ConvIdsOf(dbConversations')
            /\ \A m \in dbMessages' : m.conversationId # u
            /\ dbConversations' = ConversationsWithout(dbConversations, u)
            /\ {m \in dbMessages' : m.conversationId # u}
                  = {m \in dbMessages : m.conversationId # u}]_vars

\* C16: DatabaseService.addMessage for a conversation id that is not in the
\* store stores no message (and fails with ConversationNotFound).
C16_UnknownConversationRefused ==
    [][\A u \in 1..MaxConvs :
          (dbOp' = [name |-> "addMessage", uuid |-> u]
              /\ u \notin ConvIdsOf(dbConversations))
          => dbMessages' = dbMessages]_vars

\* a conversation has just been deleted, a message that was stored is gone
\* with it, and another conversation is still stored with a message of its own
C5_Witness ==
    /\ dbOp.name = "deleteConversation"
    /\ dbOp.uuid \notin ConvIds
    /\ \E i \in 1..(nextMsgId - 1) : \A m \in dbMessages : m.id # i
    /\ \E m \in dbMessages : m.conversationId \in ConvIds

\* the step in which a reader hands back what it has read
ReaderReturns(t) ==
    \/ tasks[t].pc = "xread" /\ tasks'[t].pc = "idle"
    \/ /\ tasks[t].pc = "listed"
       /\ tasks[t].list = <<>>
       /\ tasks'[t].pc # "listed"

\* C6: a reader never hands back a conversation without the messages the
\* conversation had when its row was read: every returned conversation
\* comes with all its messages.
C6_ReaderSeesWholeConversation ==
    [][\A t \in TaskIds :
          ReaderReturns(t) =>
            \A i \in 1..Len(tasks[t].result) :
                tasks[t].result[i].snap \subseteq tasks[t].result[i].messages]_vars

(***************************************************************************)
(* Properties of export and import                                         *)
(***************************************************************************)
\* the minimal shape: a string title, createdAt, updatedAt
PassesShapeCheck(r) == r.truthy /\ r.title /\ r.createdAt /\ r.updatedAt
PassingRecords(input) == SelectSeq(input.records, PassesShapeCheck)
\* a record that passes the check and has a null entry in its messages
\* array: reading msgData.content throws.  (Of the JSON values only null
\* does: an entry that is a number, a string, a boolean, an array or an
\* object is read and stored.)
HasNullItem(r) ==
    /\ PassesShapeCheck(r)
    /\ r.messages.kind = "array"
    /\ \E i \in 1..Len(r.messages.items) : r.messages.items[i].null
ItemPayloads(r) ==
    IF r.messages.kind = "array" THEN PayloadsOf(r.messages.items) ELSE <<>>

\* C17: importing the text exportConversation(id) returned into an empty
\* store yields exactly one conversation, under an id different from the
\* exported one, whose messages read back with the content and roles of the
\* exported conversation's messages, in the same order.
C17_RoundTripPreserves ==
    [][(blob.exists /\ StoreIsEmpty /\ PortImportConversations(blob.text))
        => /\ Len(dbConversations') = 1
           /\ dbConversations'[1].uuid # blob.uuid
           /\ \A messages \in MessagesSorted(dbMessages', dbConversations'[1].uuid) :
                 PayloadsOf(messages) = blob.source]_vars

\* C18: when importConversations returns false, the conversations and the
\* messages of the store are as before the call, also when the transaction
\* had written rows before it failed.
C18_FailedImportChangesNothing ==
    [][(dbOp'.name = "importConversations" /\ ~importResult'.returned)
          => UNCHANGED <<dbConversations, dbMessages>>]_vars

C18_Witness ==
    /\ dbOp.name = "importConversations"
    /\ ~importResult.returned
    /\ importResult.written > 1
    /\ dbConversations # <<>>
    /\ dbMessages # {}

\* C19: importConversations returns false for every malformed input: text
\* that is not JSON, and JSON in which no record has the minimal shape.
C19_MalformedReturnsFalse ==
    [][\A input \in BatchInputs :
          (PortImportConversations(input)
              /\ (~input.json \/ PassingRecords(input) = <<>>))
          => ~importResult'.returned]_vars

\* what importing the passing records of the input, in order, each with all
\* its messages, leaves in the store
PassingRecordsImported(input) ==
    LET passing == PassingRecords(input)
        new == nextUuid..(nextUuid + Len(passing) - 1)
    IN  /\ importResult'.returned
        /\ Len(dbConversations') = Len(dbConversations) + Len(passing)
        /\ ConvIdsOf(dbConversations') = ConvIds \cup new
        /\ {m \in dbMessages' : m.conversationId \notin new} = dbMessages
        /\ \A k \in 1..Len(passing) :
              PayloadsOf(ById(MessagesOf(dbMessages', nextUuid + k - 1)))
                = ItemPayloads(passing[k])

\* C20 as stated: for a batch in which some records fail the shape check,
\* importConversations inserts exactly the passing records, each with all its
\* messages, and returns true.
C20_PartialBatchImported ==
    [][(dbOp'.name = "importConversations" /\ importResult'.skipped > 0) =>
        \A input \in PartialInputs :
          (/\ input.json
           /\ Len(PassingRecords(input)) < Len(input.records)
           /\ PortImportConversations(input))
          => PassingRecordsImported(input)]_vars

\* C20, amended: for a batch in which some records fail the shape check and
\* none of the passing records has a null entry in its messages array,
\* importConversations inserts exactly the passing records, in order, each
\* with all its messages (an entry that is not a message object is stored
\* with undefined content and role), leaves the stored rows as they were and
\* returns true; when a passing record has a null entry nothing is inserted
\* and false is returned.
C20_PartialBatchImportedUnlessFailed ==
    [][(dbOp'.name = "importConversations" /\ importResult'.skipped > 0) =>
        \A input \in PartialInputs :
          (/\ input.json
           /\ Len(PassingRecords(input)) < Len(input.records)
           /\ PortImportConversations(input))
          => IF \E i \in 1..Len(input.records) : HasNullItem(input.records[i])
             THEN /\ ~importResult'.returned
                  /\ UNCHANGED <<dbConversations, dbMessages>>
             ELSE PassingRecordsImported(input)]_vars

\* a batch with a misshaped record was imported into a store that held a
\* conversation: the passing record is stored with its two messages, the
\* entry that is not a message object among them
C20_Witness ==
    /\ dbOp.name = "importConversations"
    /\ importResult.returned
    /\ importResult.skipped > 0
    /\ importResult.written > 2
    /\ Len(dbConversations) > 1
    /\ \E m \in dbMessages :
          /\ m.conversationId = dbConversations[1].uuid
          /\ m.content = Undefined
          /\ m.role = Undefined
          /\ ~m.timestamp.valid

(***************************************************************************)
(* Specification of migrateFromLocalStorage: the legacy data holds up to   *)
(* MaxLegacy conversations, the method is invoked up to MaxOps times, in   *)
(* turn or while an earlier invocation is suspended at one of its awaits   *)
(***************************************************************************)
\* a legacy conversation: id is its position in the saved list, valid is
\* isValidOldConversation(oldConv), titled whether its title is another
\* string than '' (which passes typeof obj.title === 'string'), items are
\* its messages (reading the content of a null entry throws)
LegacyTitle(k) == <<"legacy", k>>
LegacyItem == MessageItem([content |-> "a", role |-> "user"], JsonString(1))
LegacyConversations(k) ==
    {[id |-> k, valid |-> FALSE, titled |-> TRUE, items |-> <<>>]}
    \cup {[id |-> k, valid |-> TRUE, titled |-> titled, items |-> items] :
              titled \in BOOLEAN,
              items \in [1..LegacyMsgs -> {LegacyItem, NullItem}]}
LegacyLists ==
    UNION {{list \in [1..n -> UNION {LegacyConversations(k) : k \in 1..n}] :
               \A k \in 1..n : list[k].id = k} : n \in 1..MaxLegacy}
\* localStorage: no legacy keys, a saved value that is not an array, or a
\* saved list with the legacy id of the active conversation (0: none)
LegacyData ==
    {NoLegacy}
    \cup {[saved |-> TRUE, active |-> FALSE, array |-> FALSE, list |-> <<>>,
           activeId |-> 0]}
    \cup {[saved |-> TRUE, active |-> a # 0, array |-> TRUE, list |-> list,
           activeId |-> a] : list \in LegacyLists, a \in 0..1}

\* (variant: the legacy keys are left in place)
Removed_Kept(ls) == ls

\* localStorage.removeItem of both legacy keys
Removed(ls) == NoLegacy

\* isValidOldConversation fails: the loop goes on with the next conversation
RECURSIVE SkipInvalid(_)
SkipInvalid(list) ==
    IF list = <<>> \/ Head(list).valid THEN list ELSE SkipInvalid(Tail(list))

\* the local variables of one invocation: parsed and activeId as read, the
\* conversations still to visit, the conversation being written (its legacy
\* id, its new uuid, the count read for its title, its messages still to
\* add), the rows getAllConversations() returned and the conversations read
\* so far, the value returned
MigrateTask(parsed, activeId) ==
    [op |-> "migrate", pc |-> "running", parsed |-> parsed,
     activeId |-> activeId, list |-> parsed, id |-> 0, uuid |-> NoUuid,
     n |-> 0, items |-> <<>>, rows |-> <<>>, loaded |-> <<>>, result |-> <<>>]
\* the invocation has returned: of its locals only what it read and the
\* value it returned are kept
Returned(task, value) ==
    [MigrateTask(task.parsed, 0) EXCEPT !.pc = "idle", !.list = <<>>,
                                        !.result = <<value>>]

\* the for loop from its head to the next await: invalid conversations are
\* skipped and db.createConversation(oldConv.title) is called for the next
\* valid one: generateUUID(), then conversations.add, or conversations.count()
\* when the title is '' (ok: the operation issued succeeds); after the last
\* one the legacy keys are removed and loadConversationsFromDatabase() issues
\* getAllConversations()
NextConversation(t, task, ok) ==
    LET rest == SkipInvalid(task.list)
    IN  IF rest = <<>>
        THEN /\ localStorage' = Removed(localStorage)
             /\ tasks' = [tasks EXCEPT ![t] =
                              [task EXCEPT !.pc = "listed", !.list = <<>>,
                                           !.items = <<>>,
                                           !.rows = GetAllConversations,
                                           !.loaded = <<>>]]
             /\ UNCHANGED <<dbConversations, nextUuid>>
        ELSE LET oldConv == Head(rest)
                 next == [task EXCEPT !.id = oldConv.id, !.uuid = nextUuid,
                                      !.items = oldConv.items,
                                      !.list = Tail(rest)]
             IN  /\ nextUuid' = nextUuid + 1
                 /\ UNCHANGED localStorage
                 /\ IF ~ok
                    THEN /\ tasks' = [tasks EXCEPT ![t] =
                                         [next EXCEPT !.pc = "rejected"]]
                         /\ UNCHANGED dbConversations
                    ELSE IF oldConv.titled
                    THEN /\ \E tick \in BOOLEAN :
                              dbConversations' =
                                 ConversationsAdd(dbConversations, nextUuid,
                                                  LegacyTitle(oldConv.id), tick)
                         /\ tasks' = [tasks EXCEPT ![t] =
                                         [next EXCEPT !.pc = "written"]]
                    ELSE /\ tasks' = [tasks EXCEPT ![t] =
                                         [next EXCEPT !.pc = "counted",
                                                      !.n = Len(dbConversations)]]
                         /\ UNCHANGED dbConversations

\* migrateFromLocalStorage() up to its first await
MigrateFromLocalStorage(t, ok) ==
    /\ Free(t)
    /\ nOps < MaxOps
    /\ nOps' = nOps + 1
    /\ dbOp' = [name |-> "migrateFromLocalStorage", uuid |-> t]
    /\ IF localStorage.saved /\ localStorage.array
       THEN NextConversation(t, MigrateTask(localStorage.list,
                                            localStorage.activeId), ok)
       ELSE /\ tasks' = [tasks EXCEPT ![t] = Returned(MigrateTask(<<>>, 0), FALSE)]
            /\ UNCHANGED <<dbConversations, nextUuid, localStorage>>
    /\ UNCHANGED <<dbMessages, nextMsgId, conversations, activeConversationUuid>>

\* db.createConversation('') after conversations.count(): conversations.add
\* with the title 'Conversation n+1' (ok: the write succeeds)
Migrate_Counted(t, ok) ==
    /\ tasks[t].op = "migrate"
    /\ tasks[t].pc = "counted"
    /\ dbOp' = [name |-> "migrate: counted", uuid |-> t]
    /\ IF ok
       THEN /\ \E tick \in BOOLEAN :
                 dbConversations' =
                    ConversationsAdd(dbConversations, tasks[t].uuid,
                                     ConversationTitle(FALSE, tasks[t].n), tick)
            /\ tasks' = [tasks EXCEPT ![t].pc = "written"]
       ELSE /\ tasks' = [tasks EXCEPT ![t].pc = "rejected"]
            /\ UNCHANGED dbConversations
    /\ UNCHANGED <<dbMessages, nextUuid, nextMsgId, conversations,
                   activeConversationUuid, localStorage, nOps>>

\* after the await of db.createConversation or db.addMessage: db.addMessage
\* issues messages.add for the next message (ok: the write succeeds), or the
\* conversation is done, becomes the active one if the legacy key names it,
\* and the loop goes on
Migrate_Written(t, ok) ==
    /\ tasks[t].op = "migrate"
    /\ tasks[t].pc = "written"
    /\ dbOp' = [name |-> "migrate: written", uuid |-> t]
    /\ IF tasks[t].items # <<>>
       THEN LET oldMsg == Head(tasks[t].items)
            IN  /\ IF oldMsg.null
                   THEN /\ tasks' = [tasks EXCEPT ![t] = Returned(@, FALSE)]
                        /\ UNCHANGED <<dbMessages, nextMsgId>>
                   ELSE IF ok
                   THEN /\ dbMessages' = dbMessages \cup
                              {[id |-> nextMsgId, conversationId |-> tasks[t].uuid,
                                content |-> oldMsg.content, role |-> oldMsg.role,
                                timestamp |-> NewDate(oldMsg.timestamp)]}
                        /\ nextMsgId' = nextMsgId + 1
                        /\ tasks' = [tasks EXCEPT ![t].pc = "msgAdded"]
                   ELSE /\ tasks' = [tasks EXCEPT ![t].pc = "rejected"]
                        /\ UNCHANGED <<dbMessages, nextMsgId>>
                /\ UNCHANGED <<dbConversations, nextUuid, localStorage,
                               activeConversationUuid>>
       ELSE /\ activeConversationUuid' =
                  IF tasks[t].activeId = tasks[t].id THEN tasks[t].uuid
                  ELSE activeConversationUuid
            /\ NextConversation(t, tasks[t], ok)
            /\ UNCHANGED <<dbMessages, nextMsgId>>
    /\ UNCHANGED <<conversations, nOps>>

\* db.addMessage after messages.add: the conversation's updatedAt is bumped
Migrate_Added(t) ==
    /\ tasks[t].op = "migrate"
    /\ tasks[t].pc = "msgAdded"
    /\ dbOp' = [name |-> "migrate: added", uuid |-> t]
    /\ \E tick \in BOOLEAN :
          dbConversations' = Touch(dbConversations, tasks[t].uuid, tick)
    /\ tasks' = [tasks EXCEPT ![t].pc = "written", ![t].items = Tail(@)]
    /\ UNCHANGED <<dbMessages, nextUuid, nextMsgId, conversations,
                   activeConversationUuid, localStorage, nOps>>

\* the await of a rejected promise is passed: the catch block returns false
Migrate_Rejected(t) ==
    /\ tasks[t].op = "migrate"
    /\ tasks[t].pc = "rejected"
    /\ dbOp' = [name |-> "migrate: rejected", uuid |-> t]
    /\ tasks' = [tasks EXCEPT ![t] = Returned(@, FALSE)]
    /\ UNCHANGED <<dbVars, conversations, activeConversationUuid, localStorage,
                   nOps>>

\* getAllConversationsWithMessages(): the loop body, one messages query per
\* conversation row read before
Migrate_ReadMessages(t) ==
    /\ tasks[t].op = "migrate"
    /\ tasks[t].pc = "listed"
    /\ tasks[t].rows # <<>>
    /\ dbOp' = [name |-> "migrate: read", uuid |-> t]
    /\ LET row == Head(tasks[t].rows)
       IN  tasks' = [tasks EXCEPT
              ![t].rows = Tail(@),
              ![t].loaded = Append(@,
                  [uuid |-> row.uuid,
                   messages |-> GetMessagesForConversation(row.uuid)])]
    /\ UNCHANGED <<dbVars, conversations, activeConversationUuid, localStorage,
                   nOps>>

\* after the await of loadConversationsFromDatabase(): return true
Migrate_Loaded(t) ==
    /\ tasks[t].op = "migrate"
    /\ tasks[t].pc = "listed"
    /\ tasks[t].rows = <<>>
    /\ dbOp' = [name |-> "migrate: loaded", uuid |-> t]
    /\ conversations' = WithMessages(tasks[t].loaded)
    /\ activeConversationUuid' =
          IF activeConversationUuid = NoUuid /\ tasks[t].loaded # <<>>
          THEN tasks[t].loaded[1].uuid
          ELSE activeConversationUuid
    /\ tasks' = [tasks EXCEPT ![t] = Returned(@, TRUE)]
    /\ UNCHANGED <<dbVars, localStorage, nOps>>

MigrateInit ==
    /\ ManagerInit
    /\ failure = NoMarkers
    /\ PortIdle
    /\ apiKey = NoKey
    /\ feature = "text"
    /\ dbConversations = <<>>
    /\ dbMessages = {}
    /\ nextUuid = 1
    /\ nextMsgId = 1
    /\ conversations = <<>>
    /\ activeConversationUuid = NoUuid
    /\ localStorage \in LegacyData
    /\ tasks = [t \in TaskIds |-> IdleTask]
    /\ nOps = 0
    /\ dbOp = NoDbOp

\* the code of an invocation after one of its awaits
MigrateContinues ==
    \/ (\E t \in TaskIds, ok \in BOOLEAN : Migrate_Counted(t, ok))
            /\ UNCHANGED managerVars
    \/ (\E t \in TaskIds, ok \in BOOLEAN : Migrate_Written(t, ok))
            /\ UNCHANGED managerVars
    \/ (\E t \in TaskIds : Migrate_Added(t)) /\ UNCHANGED managerVars
    \/ (\E t \in TaskIds : Migrate_Rejected(t)) /\ UNCHANGED managerVars
    \/ (\E t \in TaskIds : Migrate_ReadMessages(t)) /\ UNCHANGED managerVars
    \/ (\E t \in TaskIds : Migrate_Loaded(t)) /\ UNCHANGED managerVars

\* the invocations are made at any time, also while another is suspended;
\* every write succeeds
MigrateNext ==
    \/ (\E t \in TaskIds : MigrateFromLocalStorage(t, TRUE))
            /\ UNCHANGED managerVars
    \/ (\E t \in TaskIds : Migrate_Counted(t, TRUE)) /\ UNCHANGED managerVars
    \/ (\E t \in TaskIds : Migrate_Written(t, TRUE)) /\ UNCHANGED managerVars
    \/ (\E t \in TaskIds : Migrate_Added(t)) /\ UNCHANGED managerVars
    \/ (\E t \in TaskIds : Migrate_ReadMessages(t)) /\ UNCHANGED managerVars
    \/ (\E t \in TaskIds : Migrate_Loaded(t)) /\ UNCHANGED managerVars

MigrateSpec == MigrateInit /\ [][MigrateNext]_vars

\* the same, each invocation made after the one before has returned
NoneRunning == \A t \in TaskIds : tasks[t].pc = "idle"

MigrateInTurnNext ==
    \/ (\E t \in TaskIds, ok \in BOOLEAN :
            NoneRunning /\ MigrateFromLocalStorage(t, ok))
            /\ UNCHANGED managerVars
    \/ MigrateContinues

MigrateInTurnSpec == MigrateInit /\ [][MigrateInTurnNext]_vars

\* the same, every write to the database succeeding: an invocation fails
\* only on a message that is not an object
MigrateAgainNext ==
    \/ (\E t \in TaskIds : NoneRunning /\ MigrateFromLocalStorage(t, TRUE))
            /\ UNCHANGED managerVars
    \/ (\E t \in TaskIds : Migrate_Counted(t, TRUE)) /\ UNCHANGED managerVars
    \/ (\E t \in TaskIds : Migrate_Written(t, TRUE)) /\ UNCHANGED managerVars
    \/ (\E t \in TaskIds : Migrate_Added(t)) /\ UNCHANGED managerVars
    \/ (\E t \in TaskIds : Migrate_ReadMessages(t)) /\ UNCHANGED managerVars
    \/ (\E t \in TaskIds : Migrate_Loaded(t)) /\ UNCHANGED managerVars

MigrateAgainSpec == MigrateInit /\ [][MigrateAgainNext]_vars

\* the conversations the call inserted, in the order it inserted them
Inserted ==
    [i \in 1..(Len(dbConversations') - Len(dbConversations)) |->
        dbConversations'[Len(dbConversations') - Len(dbConversations) + 1 - i].uuid]

C22_SecondMigrationDoesNothing ==
    /\ [](\A t \in TaskIds :
             tasks[t].pc = "idle" /\ tasks[t].result = <<TRUE>>
                => ~localStorage.saved)
    /\ [][dbOp'.name = "migrateFromLocalStorage" /\ ~localStorage.saved =>
             /\ tasks'[dbOp'.uuid].pc = "idle"
             /\ tasks'[dbOp'.uuid].result = <<FALSE>>
             /\ UNCHANGED <<dbConversations, dbMessages, nextUuid, nextMsgId,
                            activeConversationUuid, localStorage>>]_vars

\* a migration has transferred a conversation and removed the legacy keys,
\* and the invocation after it has returned false
C22_Witness ==
    /\ dbOp.name = "migrateFromLocalStorage"
    /\ nOps > 1
    /\ dbConversations # <<>>
    /\ ~localStorage.saved
    /\ tasks[dbOp.uuid].pc = "idle"
    /\ tasks[dbOp.uuid].result = <<FALSE>>

\* the stored conversations that carry the title of legacy conversation k
Copies(k) ==
    {i \in 1..Len(dbConversations) : dbConversations[i].title = LegacyTitle(k)}
\* legacy conversation c is in the store with every one of its messages;
\* one whose title was '' is stored under a default title
Transferred(c) ==
    \E i \in 1..Len(dbConversations) :
        /\ IF c.titled THEN i \in Copies(c.id)
           ELSE dbConversations[i].title[1] = "Conversation"
        /\ Cardinality(MessageIdsOf(dbMessages, dbConversations[i].uuid))
              = Len(c.items)

\* C23: the legacy keys are removed only in a state where every legacy
\* conversation is in the store with all its messages; a conversation that
\* was not transferred, or not wholly, keeps them in place.
C23_RemovedOnlyWhenAllTransferred ==
    [][localStorage.saved /\ ~localStorage'.saved =>
          \A k \in 1..Len(localStorage.list) : Transferred(localStorage.list[k])]_vars

\* C24: whatever invocations of migrateFromLocalStorage were made one after
\* the other, also after one that failed part-way, no legacy conversation
\* is in the store more than once.
C24_MigratedAtMostOnce ==
    \A k \in 1..MaxLegacy : Cardinality(Copies(k)) <= 1

\* C25: when two invocations of migrateFromLocalStorage that both found the
\* legacy data have returned true, every valid legacy conversation (that has
\* a title to be known by) is in the store exactly once.
C25_OverlappingMigrateOnce ==
    \A s \in TaskIds, t \in TaskIds :
        /\ s # t
        /\ tasks[s].pc = "idle" /\ tasks[s].result = <<TRUE>>
        /\ tasks[t].pc = "idle" /\ tasks[t].result = <<TRUE>>
        /\ tasks[s].parsed # <<>> /\ tasks[t].parsed = tasks[s].parsed
        => \A k \in 1..Len(tasks[s].parsed) :
              tasks[s].parsed[k].valid /\ tasks[s].parsed[k].titled
                 => Cardinality(Copies(k)) = 1

(***************************************************************************)
(* Specification of addMessage on an empty store: conversations come into  *)
(* being only on demand                                                    *)
(***************************************************************************)
OnDemandInit ==
    /\ StoreInit
    /\ dbConversations = <<>>
    /\ localStorage = NoLegacy

OnDemandNext ==
    \/ \E t \in TaskIds, role \in Roles : Begins(StartAddMessage(t, role))
    \/ \E t \in TaskIds : Continues(ReadMessages(t))
    \/ \E t \in TaskIds : Continues(LoadFinish(t))
    \/ \E t \in TaskIds : Continues(CreateConversation_Counted(t))
    \/ \E t \in TaskIds : Continues(CreateConversation_Created(t))
    \/ \E t \in TaskIds : Continues(DbAddMessage_Added(t))
    \/ \E t \in TaskIds : Continues(AddMessage_Touched(t))
    \/ \E t \in TaskIds : Continues(AddMessage_Titled(t))

OnDemandSpec == OnDemandInit /\ [][OnDemandNext]_vars

\* C26: when the addMessage calls made on a store without conversations
\* have all returned, exactly one conversation exists, it is the active one
\* and every message is in it.
C26_OneConversationOnDemand ==
    (nOps > 0 /\ \A t \in TaskIds : tasks[t].pc = "idle") =>
        /\ Len(dbConversations) = 1
        /\ activeConversationUuid = dbConversations[1].uuid
        /\ \A m \in dbMessages : m.conversationId = activeConversationUuid

(***************************************************************************)
(* Specification of the default titles: conversations are created, with    *)
(* and without a title, and deleted, each call awaited                     *)
(***************************************************************************)
TitleCreateConversation(titled) ==
    /\ Len(dbConversations) <= MaxConvs
    /\ nextUuid - 1 < MaxConvs + 2
    /\ DbCreateConversationCall(1, titled)

TitleNext ==
    \/ (\E titled \in BOOLEAN : Awaited /\ TitleCreateConversation(titled))
            /\ UNCHANGED DbFrame
    \/ DbCreateConversation_Counted(1) /\ UNCHANGED DbFrame
    \/ (\E u \in 1..(MaxConvs + 2) : Awaited /\ DbDeleteConversation(u))
            /\ UNCHANGED <<serviceVars, nOps, managerVars>>

TitleSpec == PortInit /\ [][TitleNext]_vars

\* C27: createConversation without a title on a store of n conversations
\* stores the title 'Conversation n+1'; as long as nothing was deleted the
\* k-th conversation created has the title 'Conversation k' unless it was
\* given one.
C27_DefaultTitleCounts ==
    /\ [][DbCreateConversation_Counted(1) =>
                /\ Len(dbConversations') = Len(dbConversations) + 1
                /\ dbConversations'[1].uuid = tasks[1].uuid
                /\ dbConversations'[1].title =
                      DefaultTitle(Len(dbConversations) + 1)]_vars
    /\ [](Len(dbConversations) = nextUuid - 1 =>
             \A i \in 1..Len(dbConversations) :
                dbConversations[i].title
                   \in {GivenTitle, DefaultTitle(dbConversations[i].uuid)})

\* three conversations were created without a title on the empty store:
\* 'Conversation 3', 'Conversation 2', 'Conversation 1', the newest first
C27_Witness ==
    /\ Len(dbConversations) = 3
    /\ nextUuid = 4
    /\ \A i \in 1..3 : dbConversations[i].title = DefaultTitle(4 - i)

(***************************************************************************)
(* Specification of the derived titles: generateTitle on messages of 'x'   *)
(* between spaces, shorter and longer than the title                       *)
(***************************************************************************)
Chars(c, n) == [i \in 1..n |-> c]
Ellipsis == Chars(".", 3)
FirstMessages ==
    {Chars(" ", l) \o Chars("x", k) \o Chars(" ", r) :
        l \in 0..MaxPad, r \in 0..MaxPad,
        k \in {0, 1, 5} \cup ((TitleLength - 2)..(TitleLength + 2))}

\* String.prototype.substring(0, n)
Substring(str, n) == SubSeq(str, 1, IF n < Len(str) THEN n ELSE Len(str))
\* String.prototype.trim()
RECURSIVE TrimStart(_)
TrimStart(str) ==
    IF str # <<>> /\ Head(str) = " " THEN TrimStart(Tail(str)) ELSE str
RECURSIVE TrimEnd(_)
TrimEnd(str) ==
    IF str # <<>> /\ str[Len(str)] = " "
    THEN TrimEnd(SubSeq(str, 1, Len(str) - 1)) ELSE str
Trim(str) == TrimEnd(TrimStart(str))

\* generateTitle(firstMessage)
GenerateTitleOf(firstMessage) ==
    LET title == Trim(Substring(firstMessage, TitleLength))
    IN  IF Len(title) = Len(firstMessage) THEN title ELSE title \o Ellipsis

\* addMessage, the title update: db.updateConversationTitle(conversationUuid,
\* generateTitle(content))
UpdateDerivedTitle(u, content) ==
    /\ \E tick \in BOOLEAN : dbConversations' = Retitle(dbConversations, u, GenerateTitleOf(content), tick)
    /\ dbOp' = [name |-> "updateConversationTitle", uuid |-> u]
    /\ UNCHANGED <<dbMessages, nextUuid, nextMsgId>>

DerivedTitleNext ==
    \/ (\E t \in TaskIds : DbCreateConversation(t, FALSE)) /\ UNCHANGED DbFrame
    \/ (\E t \in TaskIds : DbCreateConversation_Counted(t)) /\ UNCHANGED DbFrame
    \/ (\E u \in 1..MaxConvs, content \in FirstMessages :
            UpdateDerivedTitle(u, content))
            /\ UNCHANGED <<serviceVars, nOps, managerVars>>

DerivedTitleSpec == PortInit /\ [][DerivedTitleNext]_vars

\* C28: the derived title of a message longer than TitleLength characters
\* is its first TitleLength characters followed by '...'; every message of
\* at most TitleLength characters is its own title, without the ellipsis.
C28_TitleIsPrefix ==
    [][\A u \in 1..MaxConvs, content \in FirstMessages :
          UpdateDerivedTitle(u, content) /\ GetConversation(u) =>
             TitleIn(dbConversations', u) =
                IF Len(content) > TitleLength
                THEN SubSeq(content, 1, TitleLength) \o Ellipsis
                ELSE content]_vars

(***************************************************************************)
(* Specification of updateMessage and deleteMessage: messages are added,   *)
(* updated and deleted while the clock moves on, each call awaited, the    *)
(* messages added to stored conversations                                  *)
(***************************************************************************)
\* new Date(): not before the timestamp of any stored message
Nows ==
    {t \in 1..(MaxTime + 1) :
        \A m \in dbMessages : m.timestamp.valid => m.timestamp.time <= t}

\* messages.update(messageId, {content, timestamp: new Date()})
Updated(m, content, now) ==
    [m EXCEPT !.content = content, !.timestamp = DateOf(now)]

\* updateMessage(messageId, content); no row has that id: nothing happens
UpdateMessage(id, content, now) ==
    /\ dbMessages' =
          {IF m.id = id THEN Updated(m, content, now) ELSE m : m \in dbMessages}
    /\ dbOp' = [name |-> "updateMessage", uuid |-> NoUuid]
    /\ UNCHANGED <<dbConversations, nextUuid, nextMsgId, portVars>>

\* deleteMessage(messageId): messages.delete(messageId); no row has that
\* id: nothing happens
DeleteMessage(id) ==
    /\ dbMessages' = {m \in dbMessages : m.id # id}
    /\ dbOp' = [name |-> "deleteMessage", uuid |-> NoUuid]
    /\ UNCHANGED <<dbConversations, nextUuid, nextMsgId, portVars>>

UpdateNext ==
    \/ (Awaited /\ PortCreateConversation) /\ UNCHANGED PortFrame
    \/ (\E t \in TaskIds, u \in 1..MaxConvs, p \in Payloads, time \in Nows :
            Awaited /\ GetConversation(u) /\ PortAddMessage(t, u, p, time))
            /\ UNCHANGED PortStepFrame
    \/ (\E t \in TaskIds : DbAddMessage_Modify(t))
            /\ UNCHANGED <<portVars, PortStepFrame>>
    \/ (\E id \in 1..(MaxConvs * MaxMsgs), t \in Nows :
            Awaited /\ UpdateMessage(id, "c", t)) /\ UNCHANGED PortFrame
    \/ (\E id \in 1..(MaxConvs * MaxMsgs) : Awaited /\ DeleteMessage(id))
            /\ UNCHANGED PortFrame

UpdateSpec == PortInit /\ [][UpdateNext]_vars

\* the places message id can have in the transcript of its conversation
PositionIn(ms, id) ==
    LET m == CHOOSE x \in ms : x.id = id
    IN  {i \in 1..Cardinality(MessagesOf(ms, m.conversationId)) :
            \E transcript \in MessagesSorted(ms, m.conversationId) :
                transcript[i].id = id}

\* C30: updateMessage replaces the content and the timestamp of the message
\* with that id, leaves every other message as it was, and the message is
\* at the same place of the transcript after the call as before, wherever
\* that place is.
C30_UpdateKeepsPosition ==
    [][\A id \in 1..(MaxConvs * MaxMsgs), t \in Nows :
          UpdateMessage(id, "c", t) /\ (\E m \in dbMessages : m.id = id) =>
             /\ \A m \in dbMessages : m.id # id => m \in dbMessages'
             /\ \E m \in dbMessages' :
                   m.id = id /\ m.content = "c" /\ m.timestamp = DateOf(t)
             /\ PositionIn(dbMessages', id) = PositionIn(dbMessages, id)]_vars

(***************************************************************************)
(* ConversationService with the content of the messages, its methods cut   *)
(* at their awaits, and TextGeneration.generate, which awaits them         *)
(***************************************************************************)
Contents == {Chars("x", 1), Chars("x", 3)}
\* Validators.minLength(2) of the prompt control
MinPromptLength == 2

\* an invocation: op the method, pc the await it is suspended at, uuid,
\* content, role, n, flag, list and result its arguments and locals; caller
\* the await of generate() that waits for it ("none": the application
\* called); prompt and answer: the conversation generate() stored the user
\* message in and the id of the assistant message it stored
ChatTask ==
    [op |-> "none", pc |-> "idle", uuid |-> NoUuid, role |-> "user", n |-> 0,
     flag |-> FALSE, list |-> <<>>, result |-> <<>>, content |-> <<>>,
     caller |-> "none", prompt |-> NoUuid, answer |-> 0]

\* db.createConversation(title?) up to its first await: generateUUID(), then
\* conversations.add, or conversations.count() when no title was given
CreateConversationBegins(t, task, titled) ==
    /\ nextUuid' = nextUuid + 1
    /\ IF titled
       THEN /\ \E tick \in BOOLEAN :
                 dbConversations' =
                    ConversationsAdd(dbConversations, nextUuid,
                                     ConversationTitle(TRUE, 0), tick)
            /\ tasks' = [tasks EXCEPT ![t] =
                  [task EXCEPT !.pc = "created", !.uuid = nextUuid]]
       ELSE /\ tasks' = [tasks EXCEPT ![t] =
                  [task EXCEPT !.pc = "counted", !.uuid = nextUuid,
                               !.n = Len(dbConversations)]]
            /\ UNCHANGED dbConversations

\* addMessage: the message is built (new Date() is now) and db.addMessage
\* issues messages.add
DbAddMessageBegins(t, task, u, now) ==
    /\ dbMessages' = dbMessages \cup
          {[id |-> nextMsgId, conversationId |-> u, content |-> task.content,
            role |-> task.role, timestamp |-> DateOf(now)]}
    /\ nextMsgId' = nextMsgId + 1
    /\ tasks' = [tasks EXCEPT ![t] =
          [task EXCEPT !.op = "add", !.pc = "msgAdded", !.uuid = u,
                       !.n = nextMsgId,
                       !.prompt = IF task.caller = "prompt" THEN u ELSE @,
                       !.answer = IF task.caller = "answer" THEN nextMsgId
                                  ELSE @]]

\* addMessage(content, role) up to its first await, active being
\* activeConversationUuid(): without an active conversation
\* createConversation() is awaited first
AddMessageBegins(t, task, active, now) ==
    IF active = NoUuid
    THEN /\ CreateConversationBegins(t, [task EXCEPT !.op = "addCreate"], FALSE)
         /\ UNCHANGED <<dbMessages, nextMsgId>>
    ELSE /\ DbAddMessageBegins(t, task, active, now)
         /\ UNCHANGED <<dbConversations, nextUuid>>

\* what the bounds of the model leave room for: a conversation, a message
\* in the conversation u
RoomInConversation(u) ==
    /\ u = NoUuid => RoomForConversations(1)
    /\ Cardinality(MessagesOf(dbMessages, u)) < MaxMsgs

\* createConversation(title?)
ChatCreateConversation(t, titled) ==
    /\ Free(t)
    /\ RoomForConversations(1)
    /\ CreateConversationBegins(t, [ChatTask EXCEPT !.op = "create"], titled)
    /\ dbOp' = [name |-> "createConversation", uuid |-> nextUuid]
    /\ UNCHANGED <<dbMessages, nextMsgId, conversations, activeConversationUuid>>

\* db.createConversation after conversations.count(): conversations.add
Chat_Counted(t) ==
    /\ tasks[t].pc = "counted"
    /\ \E tick \in BOOLEAN :
          dbConversations' =
             ConversationsAdd(dbConversations, tasks[t].uuid,
                              ConversationTitle(FALSE, tasks[t].n), tick)
    /\ tasks' = [tasks EXCEPT ![t].pc = "created", ![t].n = 0]
    /\ dbOp' = [name |-> "createConversation: counted", uuid |-> tasks[t].uuid]
    /\ UNCHANGED <<dbMessages, nextUuid, nextMsgId, conversations,
                   activeConversationUuid>>

\* createConversation after db.createConversation: the new conversation is
\* the active one, loadConversationsFromDatabase() begins
Chat_Created(t) ==
    /\ tasks[t].pc = "created"
    /\ activeConversationUuid' = tasks[t].uuid
    /\ tasks' = [tasks EXCEPT ![t] = LoadBegin(t)]
    /\ dbOp' = [name |-> "createConversation: created", uuid |-> tasks[t].uuid]
    /\ UNCHANGED <<dbVars, conversations>>

\* getAllConversationsWithMessages(): the loop body
Chat_ReadMessages(t) ==
    /\ ReadMessages(t)
    /\ dbOp' = [name |-> "loadConversationsFromDatabase: read", uuid |-> NoUuid]

\* activeConversation(): the active conversation is in the loaded list
ActiveConversation ==
    /\ activeConversationUuid # NoUuid
    /\ activeConversationUuid \in ConvIdsOf(conversations)

\* the text of the provider's response
ResponseText == Chars("x", 3)

\* generate() after the await of a method of ConversationService that has
\* returned, active being activeConversationUuid(): after createConversation()
\* the prompt is added as a user message; after that
\* googleGenAiService.generateContent is called, which throws into the catch
\* block of generate() when the service is not ready and else runs up to its
\* await of the provider (n: the call generate() waits for); after the
\* assistant message generate() returns
GenerateResumes(t, task, active, now) ==
    IF task.caller = "create"
    THEN /\ AddMessageBegins(t, [task EXCEPT !.caller = "prompt"], active, now)
         /\ UNCHANGED <<keyVars, mgrVars, callVars, lastOp>>
    ELSE IF task.caller = "prompt"
    THEN /\ Invoke(1, TRUE)
         /\ tasks' = [tasks EXCEPT ![t] =
               [task EXCEPT !.op = "generate",
                            !.pc = IF IsReady THEN "await" ELSE "idle",
                            !.n = IF IsReady THEN nCalls + 1 ELSE 0]]
         /\ UNCHANGED dbVars
    ELSE /\ tasks' = [tasks EXCEPT ![t] =
               [task EXCEPT !.op = "generate", !.pc = "idle"]]
         /\ UNCHANGED dbVars
         /\ UNCHANGED <<keyVars, mgrVars, callVars, lastOp>>

\* after the await of loadConversationsFromDatabase(), and the code of the
\* callers that follows: addMessage, back from its createConversation(),
\* issues db.addMessage; a method generate() awaits returns to it, and
\* generate() runs to its next await; every other method returns to the
\* application
Chat_Loaded(t, now) ==
    /\ tasks[t].pc = "listed"
    /\ tasks[t].list = <<>>
    /\ conversations' = WithMessages(tasks[t].result)
    /\ LET active == IF activeConversationUuid = NoUuid /\ tasks[t].result # <<>>
                     THEN tasks[t].result[1].uuid
                     ELSE activeConversationUuid
           task == [tasks[t] EXCEPT !.result = <<>>]
       IN  /\ activeConversationUuid' = active
           /\ IF task.op = "addCreate"
              THEN /\ DbAddMessageBegins(t, task, task.uuid, now)
                   /\ UNCHANGED <<dbConversations, nextUuid>>
                   /\ UNCHANGED <<keyVars, mgrVars, callVars, lastOp>>
              ELSE IF task.caller # "none"
              THEN GenerateResumes(t, task, active, now)
              ELSE /\ tasks' = [tasks EXCEPT ![t] = IdleTask]
                   /\ UNCHANGED dbVars
                   /\ UNCHANGED <<keyVars, mgrVars, callVars, lastOp>>
    /\ dbOp' = [name |-> "loadConversationsFromDatabase", uuid |-> tasks[t].uuid]

\* addMessage(content, role)
ChatAddMessage(t, content, role, now) ==
    /\ Free(t)
    /\ RoomInConversation(activeConversationUuid)
    /\ AddMessageBegins(t, [ChatTask EXCEPT !.content = content, !.role = role],
                        activeConversationUuid, now)
    /\ dbOp' = [name |-> "addMessage", uuid |-> activeConversationUuid]
    /\ UNCHANGED <<conversations, activeConversationUuid>>

\* db.addMessage after messages.add: the conversation's updatedAt is bumped
Chat_Added(t) ==
    /\ tasks[t].pc = "msgAdded"
    /\ \E tick \in BOOLEAN :
          dbConversations' = Touch(dbConversations, tasks[t].uuid, tick)
    /\ tasks' = [tasks EXCEPT ![t].pc = "touched"]
    /\ dbOp' = [name |-> "addMessage: modify", uuid |-> tasks[t].uuid]
    /\ UNCHANGED <<dbMessages, nextUuid, nextMsgId, conversations,
                   activeConversationUuid>>

\* (variant: the messages of the conversation are not looked at)
IsFirstMessage_AnyUser(u, role) == role = "user"

\* existingConversation && existingConversation.messages.length === 0 &&
\* role === 'user'
IsFirstMessage(u, role) == FirstMessageOf(u) /\ role = "user"

\* addMessage after db.addMessage: db.updateConversationTitle(conversationUuid,
\* generateTitle(content)) for a first message, or the reload
Chat_Touched(t) ==
    /\ tasks[t].pc = "touched"
    /\ IF IsFirstMessage(tasks[t].uuid, tasks[t].role)
       THEN /\ \E tick \in BOOLEAN :
                 dbConversations' =
                    Retitle(dbConversations, tasks[t].uuid,
                            GenerateTitleOf(tasks[t].content), tick)
            /\ tasks' = [tasks EXCEPT ![t].pc = "titled"]
       ELSE /\ tasks' = [tasks EXCEPT ![t] = LoadBegin(t)]
            /\ UNCHANGED dbConversations
    /\ dbOp' = [name |-> "addMessage: added", uuid |-> tasks[t].uuid]
    /\ UNCHANGED <<dbMessages, nextUuid, nextMsgId, conversations,
                   activeConversationUuid>>

\* addMessage and renameConversation after db.updateConversationTitle: the
\* reload
Chat_Titled(t) ==
    /\ tasks[t].pc = "titled"
    /\ tasks' = [tasks EXCEPT ![t] = LoadBegin(t)]
    /\ dbOp' = [name |-> "updateConversationTitle: done", uuid |-> tasks[t].uuid]
    /\ UNCHANGED <<dbVars, conversations, activeConversationUuid>>

\* updateLastMessage(content) up to its first await: it returns when no
\* conversation is active, else db.getMessagesForConversation is issued
ChatUpdateLastMessage(t, content) ==
    /\ Free(t)
    /\ IF activeConversationUuid = NoUuid
       THEN UNCHANGED tasks
       ELSE \E messages \in MessagesSorted(dbMessages, activeConversationUuid) :
               tasks' = [tasks EXCEPT ![t] =
                  [ChatTask EXCEPT !.op = "updateLast", !.pc = "lastRead",
                                   !.uuid = activeConversationUuid,
                                   !.content = content, !.result = messages]]
    /\ dbOp' = [name |-> "updateLastMessage", uuid |-> activeConversationUuid]
    /\ UNCHANGED <<dbVars, conversations, activeConversationUuid>>

\* updateLastMessage after getMessagesForConversation: it returns when the
\* conversation has no messages, else db.updateMessage(lastMessage.id,
\* content) is issued (new Date() is now; an id is never 0)
Chat_LastRead(t, now) ==
    /\ tasks[t].pc = "lastRead"
    /\ IF tasks[t].result = <<>>
       THEN /\ tasks' = [tasks EXCEPT ![t] = IdleTask]
            /\ UNCHANGED dbMessages
       ELSE LET lastMessage == tasks[t].result[Len(tasks[t].result)]
            IN  /\ dbMessages' =
                      {IF m.id = lastMessage.id
                       THEN Updated(m, tasks[t].content, now) ELSE m :
                          m \in dbMessages}
                /\ tasks' = [tasks EXCEPT ![t].pc = "lastUpdated",
                                          ![t].n = lastMessage.id,
                                          ![t].result = <<>>]
    /\ dbOp' = [name |-> "updateLastMessage: read", uuid |-> tasks[t].uuid]
    /\ UNCHANGED <<dbConversations, nextUuid, nextMsgId, conversations,
                   activeConversationUuid>>

\* updateLastMessage after db.updateMessage: the reload
Chat_LastUpdated(t) ==
    /\ tasks[t].pc = "lastUpdated"
    /\ tasks' = [tasks EXCEPT ![t] = LoadBegin(t)]
    /\ dbOp' = [name |-> "updateLastMessage: updated", uuid |-> tasks[t].uuid]
    /\ UNCHANGED <<dbVars, conversations, activeConversationUuid>>

\* the title handed to renameConversation
RenamedTitle == <<"renamed", 0>>

\* renameConversation(uuid, newTitle) up to its first await
ChatRenameConversation(t, u, title) ==
    /\ Free(t)
    /\ \E tick \in BOOLEAN :
          dbConversations' = Retitle(dbConversations, u, title, tick)
    /\ tasks' = [tasks EXCEPT ![t] =
          [ChatTask EXCEPT !.op = "rename", !.pc = "titled", !.uuid = u]]
    /\ dbOp' = [name |-> "renameConversation", uuid |-> u]
    /\ UNCHANGED <<dbMessages, nextUuid, nextMsgId, conversations,
                   activeConversationUuid>>

\* selectConversation(uuid) up to its await: db.getConversation(uuid)
ChatSelectConversation(t, u) ==
    /\ Free(t)
    /\ tasks' = [tasks EXCEPT ![t] =
          [ChatTask EXCEPT !.op = "select", !.pc = "got", !.uuid = u,
                           !.flag = GetConversation(u)]]
    /\ dbOp' = [name |-> "selectConversation", uuid |-> u]
    /\ UNCHANGED <<dbVars, conversations, activeConversationUuid>>

\* selectConversation after db.getConversation
Chat_Got(t) ==
    /\ tasks[t].pc = "got"
    /\ activeConversationUuid' =
          IF tasks[t].flag THEN tasks[t].uuid ELSE activeConversationUuid
    /\ tasks' = [tasks EXCEPT ![t] = IdleTask]
    /\ dbOp' = [name |-> "selectConversation: got", uuid |-> tasks[t].uuid]
    /\ UNCHANGED <<dbVars, conversations>>

\* deleteConversation(uuid) up to its first await: db.deleteConversation
ChatDeleteConversation(t, u) ==
    /\ Free(t)
    /\ DeleteConversationTx(u)
    /\ tasks' = [tasks EXCEPT ![t] =
          [ChatTask EXCEPT !.op = "delete", !.pc = "deleted", !.uuid = u]]
    /\ dbOp' = [name |-> "deleteConversation", uuid |-> u]
    /\ UNCHANGED <<nextUuid, nextMsgId, conversations, activeConversationUuid>>

\* deleteConversation after db.deleteConversation: db.getAllConversations()
\* when the deleted conversation is the active one, or the reload
Chat_Deleted(t) ==
    /\ tasks[t].pc = "deleted"
    /\ IF activeConversationUuid = tasks[t].uuid
       THEN tasks' = [tasks EXCEPT ![t].pc = "remaining",
                                   ![t].list = GetAllConversations]
       ELSE tasks' = [tasks EXCEPT ![t] = LoadBegin(t)]
    /\ dbOp' = [name |-> "deleteConversation: deleted", uuid |-> tasks[t].uuid]
    /\ UNCHANGED <<dbVars, conversations, activeConversationUuid>>

\* deleteConversation after db.getAllConversations(): the first remaining
\* conversation, or none, is the active one; the reload
Chat_Remaining(t) ==
    /\ tasks[t].pc = "remaining"
    /\ activeConversationUuid' =
          IF Len(tasks[t].list) > 0 THEN tasks[t].list[1].uuid ELSE NoUuid
    /\ tasks' = [tasks EXCEPT ![t] = LoadBegin(t)]
    /\ dbOp' = [name |-> "deleteConversation: remaining", uuid |-> tasks[t].uuid]
    /\ UNCHANGED <<dbVars, conversations>>

\* this.form.invalid: the prompt is required and has at least two
\* characters; others: the model, temperature and maxOutputTokens controls
\* are valid
FormInvalid(prompt, others) == Len(prompt) < MinPromptLength \/ ~others

\* what the bounds of the model leave room for: a call of the provider
RoomForCall == nCalls < MaxCalls

\* generate() up to its first await: it returns when the form is invalid or
\* the service is not initialised; else clearError(), then
\* createConversation() when no conversation is active, else
\* addMessage(prompt, 'user')
GenerateBegin(t, prompt, others, now) ==
    /\ Free(t)
    /\ IF FormInvalid(prompt, others) \/ ~isInitialized
       THEN /\ dbOp' = [name |-> "generate: refused", uuid |-> activeConversationUuid]
            /\ UNCHANGED <<dbVars, tasks, keyVars, mgrVars, callVars, lastOp>>
       ELSE /\ RoomForCall
            /\ ClearError
            /\ LET task == [ChatTask EXCEPT !.content = prompt, !.role = "user"]
               IN  IF ActiveConversation
                   THEN /\ RoomInConversation(activeConversationUuid)
                        /\ AddMessageBegins(t, [task EXCEPT !.caller = "prompt"],
                                            activeConversationUuid, now)
                   ELSE /\ RoomForConversations(1)
                        /\ CreateConversationBegins(t,
                               [task EXCEPT !.op = "create", !.caller = "create"],
                               FALSE)
                        /\ UNCHANGED <<dbMessages, nextMsgId>>
            /\ dbOp' = [name |-> "generate", uuid |-> activeConversationUuid]
    /\ UNCHANGED <<conversations, activeConversationUuid>>

\* the provider call generate() waits for settles with outcome o: the rest
\* of generateContent runs, and generate() after its await: the text of the
\* response is added as an assistant message, or the error is shown
GenerateSettles(t, o, now) ==
    /\ tasks[t].op = "generate"
    /\ tasks[t].pc = "await"
    /\ ProviderSettles(tasks[t].n, o)
    /\ IF calls'[tasks[t].n].result = "success"
       THEN /\ RoomInConversation(activeConversationUuid)
            /\ AddMessageBegins(t, [tasks[t] EXCEPT !.caller = "answer",
                                                    !.content = ResponseText,
                                                    !.role = "assistant"],
                                activeConversationUuid, now)
       ELSE /\ tasks' = [tasks EXCEPT ![t].pc = "idle"]
            /\ UNCHANGED dbVars
    /\ dbOp' = [name |-> "generate: settled", uuid |-> activeConversationUuid]
    /\ UNCHANGED <<conversations, activeConversationUuid>>

\* what no method of ConversationService writes
ChatFrame == <<localStorage, nOps, managerVars>>
\* what neither ConversationService nor GoogleGenAiService writes
GenerateFrame == <<localStorage, nOps, uploadVars, failure, portVars>>

\* the code of the methods after their awaits
ChatContinues ==
    \/ (\E t \in TaskIds : Chat_Counted(t)) /\ UNCHANGED ChatFrame
    \/ (\E t \in TaskIds : Chat_Created(t)) /\ UNCHANGED ChatFrame
    \/ (\E t \in TaskIds : Chat_ReadMessages(t)) /\ UNCHANGED <<nOps, managerVars>>
    \/ (\E t \in TaskIds, now \in Nows : Chat_Loaded(t, now))
            /\ UNCHANGED ChatFrame
    \/ (\E t \in TaskIds : Chat_Added(t)) /\ UNCHANGED ChatFrame
    \/ (\E t \in TaskIds : Chat_Touched(t)) /\ UNCHANGED ChatFrame

(***************************************************************************)
(* Specification of the first message: createConversation() and            *)
(* addMessage(content, role) of ConversationService, each call awaited     *)
(***************************************************************************)
ChatNext ==
    \/ (\E t \in TaskIds : Awaited /\ ChatCreateConversation(t, FALSE))
            /\ UNCHANGED ChatFrame
    \/ (\E t \in TaskIds, content \in Contents, role \in Roles, now \in Nows :
            Awaited /\ ChatAddMessage(t, content, role, now))
            /\ UNCHANGED ChatFrame
    \/ ChatContinues
    \/ (\E t \in TaskIds : Chat_Titled(t)) /\ UNCHANGED ChatFrame

ChatSpec == PortInit /\ [][ChatNext]_vars

(***************************************************************************)
(* Specification of the last message: createConversation(),                *)
(* addMessage(content, role) and updateLastMessage(content) of             *)
(* ConversationService, each call awaited                                  *)
(***************************************************************************)
LastMessageNext ==
    \/ (\E t \in TaskIds : Awaited /\ ChatCreateConversation(t, FALSE))
            /\ UNCHANGED ChatFrame
    \/ (\E t \in TaskIds, content \in Contents, role \in Roles, now \in Nows :
            Awaited /\ ChatAddMessage(t, content, role, now))
            /\ UNCHANGED ChatFrame
    \/ (\E t \in TaskIds, content \in Contents :
            Awaited /\ ChatUpdateLastMessage(t, content))
            /\ UNCHANGED ChatFrame
    \/ (\E t \in TaskIds, now \in Nows : Chat_LastRead(t, now))
            /\ UNCHANGED ChatFrame
    \/ (\E t \in TaskIds : Chat_LastUpdated(t)) /\ UNCHANGED ChatFrame
    \/ ChatContinues
    \/ (\E t \in TaskIds : Chat_Titled(t)) /\ UNCHANGED ChatFrame

LastMessageSpec == PortInit /\ [][LastMessageNext]_vars

\* the user messages of a transcript, in its order
UserMessages(transcript) == SelectSeq(transcript, LAMBDA m : m.role = "user")

\* C29: when the calls have returned, a conversation that holds a user
\* message has the title derived from the content of its first user message,
\* whatever assistant messages it held before.
C29_TitleFromFirstUserMessage ==
    Awaited =>
        \A i \in 1..Len(dbConversations) :
            \A transcript \in MessagesSorted(dbMessages, dbConversations[i].uuid) :
                UserMessages(transcript) # <<>> =>
                    dbConversations[i].title =
                        GenerateTitleOf(UserMessages(transcript)[1].content)

(***************************************************************************)
(* Specification of the roles: messages are added by addMessage, imported  *)
(* and migrated while the legacy keys are there, each call awaited, the    *)
(* imported and the legacy messages carrying any role                      *)
(***************************************************************************)
\* the role property of a parsed message: a role, another string, absent
AnyRoles == Roles \cup {"system", "undefined"}
RoleItems ==
    {MessageItem([content |-> "a", role |-> r], JsonString(1)) : r \in AnyRoles}
RoleInputs == {Json(<<Shaped(ArrayOf(<<item>>))>>) : item \in RoleItems}
RoleLegacy ==
    {NoLegacy}
    \cup {[saved |-> TRUE, active |-> FALSE, array |-> TRUE, activeId |-> 0,
           list |-> <<[id |-> 1, valid |-> TRUE, titled |-> TRUE,
                       items |-> <<item>>]>>] :
             item \in RoleItems}

RoleFrame == <<tasks, nOps, keyVars, mgrVars, callVars, lastOp, uploadVars, failure>>

RoleInit ==
    /\ ManagerInit
    /\ failure = NoMarkers
    /\ PortIdle
    /\ apiKey = NoKey
    /\ feature = "text"
    /\ dbConversations = <<>>
    /\ dbMessages = {}
    /\ nextUuid = 1
    /\ nextMsgId = 1
    /\ conversations = <<>>
    /\ activeConversationUuid = NoUuid
    /\ localStorage \in RoleLegacy
    /\ tasks = [t \in TaskIds |-> IdleTask]
    /\ nOps = 0
    /\ dbOp = NoDbOp

RoleNext ==
    \/ (Awaited /\ PortCreateConversation) /\ UNCHANGED PortFrame
    \/ (\E u \in 1..MaxConvs, p \in Payloads, time \in 1..MaxTime :
            Awaited /\ GetConversation(u) /\ PortAddMessage(1, u, p, time))
            /\ UNCHANGED PortStepFrame
    \/ (\E t \in TaskIds : DbAddMessage_Modify(t))
            /\ UNCHANGED <<portVars, PortStepFrame>>
    \/ (\E input \in RoleInputs : Awaited /\ PortImportConversations(input))
            /\ UNCHANGED PortFrame
    \/ (Awaited /\ localStorage.saved /\ MigrateFromLocalStorage(1, TRUE))
            /\ UNCHANGED managerVars
    \/ (\E t \in TaskIds : Migrate_Written(t, TRUE)) /\ UNCHANGED managerVars
    \/ (\E t \in TaskIds : Migrate_Added(t)) /\ UNCHANGED managerVars
    \/ (\E t \in TaskIds : Migrate_ReadMessages(t)) /\ UNCHANGED managerVars
    \/ (\E t \in TaskIds : Migrate_Loaded(t)) /\ UNCHANGED managerVars

RoleSpec == RoleInit /\ [][RoleNext]_vars

\* C31: every stored message has the role user or the role assistant.
C31_RolesAreUserOrAssistant ==
    \A m \in dbMessages : m.role \in Roles

(***************************************************************************)
(* Specification of the History Log of the video and PDF managers: calls   *)
(* succeed, entries are removed by index, the log is cleared               *)
(***************************************************************************)
\* the indexes handed to removeAnalyzedVideo / removeAnalysis
Indexes == (0 - 1)..MaxCalls

\* (variant: the index counts from one)
Keeps_FromOne(i, index) == i + 1 # index

\* the filter callback (_, i) => i !== index
Keeps(i, index) == i # index

\* currentAnalyses.filter((_, i) => i !== index), i the index of Head(seq)
RECURSIVE FilterIndex(_, _, _)
FilterIndex(seq, i, index) ==
    IF seq = <<>> THEN <<>>
    ELSE (IF Keeps(i, index) THEN <<Head(seq)>> ELSE <<>>)
            \o FilterIndex(Tail(seq), i + 1, index)

\* removeAnalyzedVideo(index) / removeAnalysis(index)
RemoveAnalyzedVideo(index) ==
    /\ KeepsHistory(feature)
    /\ history' = FilterIndex(history, 0, index)
    /\ lastOp' = "removeAnalyzedVideo"
    /\ UNCHANGED <<keyVars, feature, ai, isInitialized, isGenerating, lastError,
                   currentAbortController, effectDirty, callVars>>

\* clearAnalyzedVideos() / clearAnalysisHistory()
ClearAnalyzedVideos ==
    /\ KeepsHistory(feature)
    /\ history' = <<>>
    /\ lastOp' = "clearAnalyzedVideos"
    /\ UNCHANGED <<keyVars, feature, ai, isInitialized, isGenerating, lastError,
                   currentAbortController, effectDirty, callVars>>

HistoryInit ==
    /\ ManagerInit
    /\ apiKey \in Keys
    /\ feature \in {"video", "pdf"}
    /\ failure = NoMarkers
    /\ PortIdle
    /\ StoreEmpty

HistoryNext ==
    \/ RunEffect /\ UNCHANGED effectFrame
    \/ (\E valid \in ValidInputs : Invoke(1, valid)) /\ UNCHANGED restVars
    \/ (\E c \in CallIds, o \in ProviderOutcomes : ProviderSettles(c, o))
            /\ UNCHANGED restVars
    \/ CancelCurrentRequest /\ UNCHANGED restVars
    \/ (\E index \in Indexes : RemoveAnalyzedVideo(index)) /\ UNCHANGED restVars
    \/ ClearAnalyzedVideos /\ UNCHANGED restVars

HistorySpec == HistoryInit /\ [][HistoryNext]_vars

\* the log without the entry at (zero-based) position index
WithoutPosition(log, index) ==
    IF index < 0 \/ index >= Len(log) THEN log
    ELSE SubSeq(log, 1, index) \o SubSeq(log, index + 2, Len(log))

\* C32: remove(index) deletes the entry at that position and keeps the others
\* in their order, an index outside the log changes nothing, clear() empties
\* the log, and every other step leaves the log as it is or puts one new
\* entry before the entries it holds.
C32_HistoryKeepsOrder ==
    [][/\ \A index \in Indexes :
             RemoveAnalyzedVideo(index) => history' = WithoutPosition(history, index)
       /\ ClearAnalyzedVideos => history' = <<>>
       /\ lastOp' \notin {"removeAnalyzedVideo", "clearAnalyzedVideos"} =>
             \/ history' = history
             \/ \E c \in CallIds : ~InHistory(c) /\ history' = <<c>> \o history]_vars

\* three calls succeeded and the entry in the middle of the log was removed
C32_Witness ==
    /\ lastOp = "removeAnalyzedVideo"
    /\ Len(history) = 2
    /\ history[1] = history[2] + 2

(***************************************************************************)
(* Specification of one manager whose credential stays set: calls are      *)
(* issued, settle and are cancelled                                        *)
(***************************************************************************)
CancelInit ==
    /\ Init
    /\ apiKey \in Keys

CancelNext ==
    \/ RunEffect /\ UNCHANGED effectFrame
    \/ (\E valid \in ValidInputs : Invoke(1, valid)) /\ UNCHANGED restVars
    \/ (\E c \in CallIds : PreprocessSettles(c, TRUE) \/ PreprocessSettles(c, FALSE))
            /\ UNCHANGED restVars
    \/ (\E c \in CallIds, o \in ProviderOutcomes : ProviderSettles(c, o))
            /\ UNCHANGED restVars
    \/ CancelCurrentRequest /\ UNCHANGED restVars
    \/ ClearError /\ UNCHANGED restVars

CancelSpec == CancelInit /\ [][CancelNext]_vars

\* C33: after cancelCurrentRequest() a second cancelCurrentRequest() would
\* leave the generating flag and every call's signal as the first left them,
\* and a cancelCurrentRequest() made while the generating flag is false, or
\* while no call is in flight, changes nothing.
C33_CancelIsIdempotent ==
    [][CancelCurrentRequest =>
          /\ CancelledGenerating' = isGenerating'
          /\ CancelledCalls' = calls'
          /\ (~isGenerating \/ \A c \in CallIds : ~InFlight(c)) =>
                UNCHANGED <<keyVars, mgrVars, nCalls>>
                /\ \A c \in CallIds : calls'[c].aborted = calls[c].aborted]_vars

\* a call was in flight, cancelCurrentRequest() was called twice: the call's
\* signal is aborted, the flag is false, the second call changed neither
C33_Witness ==
    /\ lastOp = "other"
    /\ ~isGenerating
    /\ currentAbortController # NoCall
    /\ calls[currentAbortController].aborted
    /\ calls[currentAbortController].stopReq
    /\ InFlight(currentAbortController)

(***************************************************************************)
(* Specification of one manager and the credential store, with at most     *)
(* MaxIssued calls issued                                                  *)
(***************************************************************************)
MaxIssued == 2

TokenNext ==
    \/ (\E k \in KeyInputs, v \in BOOLEAN : SetApiKey(k, v)) /\ UNCHANGED restVars
    \/ ClearApiKey /\ UNCHANGED restVars
    \/ RunEffect /\ UNCHANGED effectFrame
    \/ (\E n \in CountInputs, valid \in ValidInputs :
            nCalls < MaxIssued /\ Invoke(n, valid)) /\ UNCHANGED restVars
    \/ (\E c \in CallIds : PreprocessSettles(c, TRUE) \/ PreprocessSettles(c, FALSE))
            /\ UNCHANGED restVars
    \/ (\E c \in CallIds, o \in ProviderOutcomes : ProviderSettles(c, o))
            /\ UNCHANGED restVars
    \/ CancelCurrentRequest /\ UNCHANGED restVars
    \/ ClearError /\ UNCHANGED restVars

TokenSpec == Init /\ [][TokenNext]_vars

\* a step of a manager: the constructor effect, an invoke, the settling of
\* its preprocessing or of its provider call, cancelCurrentRequest, clearError
ManagerOperation ==
    \/ RunEffect
    \/ \E n \in CountInputs, valid \in ValidInputs : Invoke(n, valid)
    \/ \E c \in CallIds : PreprocessSettles(c, TRUE) \/ PreprocessSettles(c, FALSE)
    \/ \E c \in CallIds, o \in ProviderOutcomes : ProviderSettles(c, o)
    \/ CancelCurrentRequest
    \/ ClearError

\* C34: no step of a manager changes the token, hasApiKey or the
\* session-storage copy of the token; a step of a manager changes the
\* validated flag only to false (markAsInvalid) or, while a token is set, to
\* true (markAsValidated).
C34_ManagersLeaveTheToken ==
    [][/\ (apiKey' # apiKey \/ storedKey' # storedKey \/ hasApiKey' # hasApiKey)
            => ~ManagerOperation
       /\ (isValidated' # isValidated /\ ManagerOperation)
            => (isValidated' = FALSE \/ Truthy(apiKey))]_vars

\* a call succeeded and a later one was rejected for its credential: the
\* validated flag is false again, the token and its stored copy are still there
C34_Witness ==
    /\ lastOp = "rejected"
    /\ Truthy(apiKey)
    /\ storedKey = apiKey
    /\ hasApiKey
    /\ ~isValidated
    /\ history # <<>>

(***************************************************************************)
(* Specification of TextGeneration.generate: the API key is set and the    *)
(* service initialised by its effect; the user message is added, the       *)
(* provider call is awaited, the assistant message is added; while the     *)
(* call is awaited conversations are selected, created and deleted         *)
(***************************************************************************)
GenerateNext ==
    \/ (\E k \in KeyInputs, v \in BOOLEAN : SetApiKey(k, v)) /\ UNCHANGED restVars
    \/ ClearApiKey /\ UNCHANGED restVars
    \/ RunEffect /\ UNCHANGED effectFrame
    \/ (\E prompt \in Contents, others \in BOOLEAN, now \in Nows :
            Awaited /\ GenerateBegin(1, prompt, others, now))
            /\ UNCHANGED GenerateFrame
    \/ (\E o \in ProviderOutcomes, now \in Nows :
            tasks[2].pc = "idle" /\ GenerateSettles(1, o, now))
            /\ UNCHANGED GenerateFrame
    \/ (tasks[1].pc = "await" /\ ChatCreateConversation(2, FALSE))
            /\ UNCHANGED ChatFrame
    \/ (\E u \in 1..MaxConvs : tasks[1].pc = "await" /\ ChatSelectConversation(2, u))
            /\ UNCHANGED ChatFrame
    \/ (\E u \in 1..MaxConvs : tasks[1].pc = "await" /\ ChatDeleteConversation(2, u))
            /\ UNCHANGED ChatFrame
    \/ (\E t \in TaskIds : Chat_Counted(t)) /\ UNCHANGED ChatFrame
    \/ (\E t \in TaskIds : Chat_Created(t)) /\ UNCHANGED ChatFrame
    \/ (\E t \in TaskIds : Chat_ReadMessages(t)) /\ UNCHANGED <<nOps, managerVars>>
    \/ (\E t \in TaskIds, now \in Nows : Chat_Loaded(t, now))
            /\ UNCHANGED GenerateFrame
    \/ (\E t \in TaskIds : Chat_Added(t)) /\ UNCHANGED ChatFrame
    \/ (\E t \in TaskIds : Chat_Touched(t)) /\ UNCHANGED ChatFrame
    \/ (\E t \in TaskIds : Chat_Titled(t)) /\ UNCHANGED ChatFrame
    \/ (\E t \in TaskIds : Chat_Got(t)) /\ UNCHANGED ChatFrame
    \/ (\E t \in TaskIds : Chat_Deleted(t)) /\ UNCHANGED ChatFrame
    \/ (\E t \in TaskIds : Chat_Remaining(t)) /\ UNCHANGED ChatFrame

GenerateSpec == PortInit /\ [][GenerateNext]_vars

\* C35: the assistant message a generate() call has stored is in the
\* conversation that call's user message was stored in.
C35_AnswerJoinsItsPrompt ==
    (tasks[1].op = "generate" /\ tasks[1].pc = "idle" /\ tasks[1].answer # 0) =>
        \A m \in dbMessages :
            m.id = tasks[1].answer => m.conversationId = tasks[1].prompt

\* C36: whenever no operation of the store is in progress, the active
\* conversation id is null or the uuid of a stored conversation.
C36_ActiveIsStored ==
    (\A t \in TaskIds : tasks[t].pc = "idle") =>
        activeConversationUuid \in ConvIds \cup {NoUuid}

(***************************************************************************)
(* Specification of a credential replaced while calls are in flight: every *)
(* call is issued with the first credential, setApiKey hands in another    *)
(***************************************************************************)
OtherKey == "k2"

ReplaceInit ==
    /\ Init
    /\ apiKey \in Keys

ReplaceNext ==
    \/ (\E v \in BOOLEAN : SetApiKey(OtherKey, v)) /\ UNCHANGED restVars
    \/ RunEffect /\ UNCHANGED effectFrame
    \/ (\E n \in CountInputs, valid \in ValidInputs :
            apiKey \in Keys /\ ai = apiKey /\ nCalls < MaxIssued /\ Invoke(n, valid))
            /\ UNCHANGED restVars
    \/ (\E c \in CallIds : PreprocessSettles(c, TRUE) \/ PreprocessSettles(c, FALSE))
            /\ UNCHANGED restVars
    \/ (\E c \in CallIds, o \in ProviderOutcomes : ProviderSettles(c, o))
            /\ UNCHANGED restVars
    \/ CancelCurrentRequest /\ UNCHANGED restVars

ReplaceSpec == ReplaceInit /\ [][ReplaceNext]_vars

\* C37: once the credential has been replaced by another one, the settling of
\* a call issued with the first credential neither changes the validated flag
\* nor adds an entry to the history.
C37_OutcomeStaysWithItsCredential ==
    [][(apiKey = OtherKey
            /\ \E c \in CallIds, o \in ProviderOutcomes : ProviderSettles(c, o))
          => (isValidated' = isValidated /\ history' = history)]_vars

\* C38: while the generating flag is true a call of the manager is in flight
\* (in its preprocessing or awaiting the provider), and the reset the effect
\* makes when the credential is gone leaves the flag false.
C38_GeneratingHasACall ==
    /\ [](isGenerating => \E c \in CallIds : InFlight(c))
    /\ [][(RunEffect /\ ~Truthy(apiKey)) => ~isGenerating']_vars

\* one call has succeeded, the credential was cleared while another was in
\* flight: the reset has aborted that call and the flag is false
C38_Witness ==
    /\ ~isGenerating
    /\ apiKey = NoKey
    /\ ~effectDirty
    /\ \E c \in CallIds : InFlight(c) /\ calls[c].aborted
    /\ \E d \in CallIds : calls[d].result = "success"

(***************************************************************************)
(* Specification of the title of a conversation that was created with a    *)
(* title or renamed: createConversation(title), renameConversation of the  *)
(* active conversation, selectConversation and addMessage on the active    *)
(* conversation, each call awaited, all messages added within one tick of  *)
(* the clock, the assistant messages with one content                      *)
(***************************************************************************)
RetitleNext ==
    \/ (\E t \in TaskIds : Awaited /\ ChatCreateConversation(t, TRUE))
            /\ UNCHANGED ChatFrame
    \/ (\E t \in TaskIds :
            Awaited /\ ChatRenameConversation(t, activeConversationUuid,
                                              RenamedTitle))
            /\ UNCHANGED ChatFrame
    \/ (\E t \in TaskIds, u \in 1..MaxConvs :
            Awaited /\ ChatSelectConversation(t, u)) /\ UNCHANGED ChatFrame
    \/ (\E t \in TaskIds, content \in Contents, role \in Roles,
           now \in Nows \cap {1} :
            /\ Awaited
            /\ activeConversationUuid # NoUuid
            /\ RoomForMessages(1)
            /\ role = "assistant" => content = Chars("x", 1)
            /\ ChatAddMessage(t, content, role, now))
            /\ UNCHANGED ChatFrame
    \/ (\E t \in TaskIds : Chat_Created(t)) /\ UNCHANGED ChatFrame
    \/ (\E t \in TaskIds : Chat_ReadMessages(t)) /\ UNCHANGED <<nOps, managerVars>>
    \/ (\E t \in TaskIds, now \in Nows \cap {1} : Chat_Loaded(t, now))
            /\ UNCHANGED ChatFrame
    \/ (\E t \in TaskIds : Chat_Added(t)) /\ UNCHANGED ChatFrame
    \/ (\E t \in TaskIds : Chat_Touched(t)) /\ UNCHANGED ChatFrame
    \/ (\E t \in TaskIds : Chat_Titled(t)) /\ UNCHANGED ChatFrame
    \/ (\E t \in TaskIds : Chat_Got(t)) /\ UNCHANGED ChatFrame

RetitleSpec == PortInit /\ [][RetitleNext]_vars

\* the titles of the stored conversations other than u
OtherTitles(cs, u) ==
    {<<cs[i].uuid, cs[i].title>> : i \in {j \in 1..Len(cs) : cs[j].uuid # u}}

\* C39: of the steps of an addMessage call on a stored conversation only
\* the one after db.addMessage changes a title, and only when the message
\* is the first of its conversation and has the role user: the conversation
\* then has the title derived from the content, whatever title it was
\* created with or renamed to; a call on a conversation that holds a message
\* leaves every title as it was.
C39_OnlyTheFirstMessageRetitles ==
    [][\A t \in TaskIds :
          (tasks'[t] # tasks[t] /\ "add" \in {tasks[t].op, tasks'[t].op}) =>
             LET u == tasks'[t].uuid
                 first == MessageIdsOf(dbMessages, u) \subseteq {tasks[t].n}
             IN  /\ OtherTitles(dbConversations', u) = OtherTitles(dbConversations, u)
                 /\ GetConversation(u) =>
                       TitleIn(dbConversations', u) =
                          IF tasks[t].pc = "touched" /\ first
                                /\ tasks[t].role = "user"
                          THEN GenerateTitleOf(tasks[t].content)
                          ELSE TitleIn(dbConversations, u)]_vars

\* a conversation created with a title, or renamed, holds a user message and
\* an assistant message and has the title derived from the user message,
\* while another conversation still has the title it was renamed to
C39_Witness ==
    /\ Awaited
    /\ dbOp.name = "loadConversationsFromDatabase"
    /\ Cardinality(MessagesOf(dbMessages, dbOp.uuid)) = 2
    /\ \E m \in MessagesOf(dbMessages, dbOp.uuid) :
          /\ m.role = "user"
          /\ TitleIn(dbConversations, dbOp.uuid) = GenerateTitleOf(m.content)
    /\ \E m \in MessagesOf(dbMessages, dbOp.uuid) : m.role = "assistant"
    /\ \E i \in 1..Len(dbConversations) : dbConversations[i].title = RenamedTitle
====
